---- MODULE Spec2Model ----
(***************************************************************************)
(* AEGIS execution proxy: the audit buffer and its crash-safe flush, the   *)
(* per-request execution pipeline with its idempotency cache and lock, the *)
(* agent wallet, and the HITL decision state machine.                      *)
(*                                                                         *)
(* Every await of the Python code is a suspension point, so every handler  *)
(* is split at its awaits that read or write shared state (Redis keys,     *)
(* database rows); the code between two such awaits is one atomic step.    *)
(***************************************************************************)
EXTENDS Integers, Sequences, FiniteSets, Bags, TLC

None == "None"

\* no response (Python None where a ProxyResponse is expected)
NoResponse == [request_id |-> 0, status |-> "none", message |-> "",
               response_body |-> ""]

\* an unset Redis string key
Nil == << >>

Min(a, b) == IF a < b THEN a ELSE b

(***************************************************************************)
(* Bounds of the model.                                                    *)
(***************************************************************************)
\* number of AuditService.log calls explored
MaxEntries == 3
\* cap on the number of rows of audit_logs explored
MaxRows == 4
\* cap on the balance that top-ups build up
MaxBalance == 2
\* number of HITL requests explored
MaxRequests == 1
\* number of expiry periods that pass
MaxTicks == 2
\* number of adjust_score calls of each caller
MaxAdjust == 2

\* minute windows after the first
MaxWindow == 1

\* requests looked at after a counter has passed its limit
MaxOver == 1

\* rows inserted into agent_permissions
MaxPerms == 2

\* UPDATE / DELETE statements that reach the audit tables
MaxStatements == 2

\* export_batch calls
MaxExports == 2

\* steps of log calls of one worker process before its shutdown
MaxBursts == 2

\* entries queued while the two locks are followed together
MaxQueued == 1

\* largest sum, baseline and amount of a check_and_trip call, in cents
MaxSpend == 4

\* entries logged while exports are followed beside overlapping flush runs
MaxLogged == 2

\* clock hours after the first, and the largest max_requests_per_hour
MaxHours == 1
MaxPerHour == 2

\* the SDK client: its failure_threshold, its reset_timeout_seconds, its
\* max_retries, the failures counted, the readings of time.monotonic(),
\* and the calls followed through one half-open breaker
FailureThreshold == 2
ResetTimeout == 2
MaxRetries == 1
MaxFailures == 5
MaxMonotonic == 6
MaxProbes == 2

(***************************************************************************)
(* Program constants.                                                      *)
(***************************************************************************)
MAX_BATCH == 200

HITL_EXPIRY_MINUTES == 30

\* "0" * 64: the hash that precedes the first row.  Hashes are modelled as
\* the sequence of the canonical payloads hashed so far, so the genesis
\* hash is the empty sequence.
GENESIS_HASH == << >>

\* processes that run flush_buffer (the scheduler of each worker process,
\* and the shutdown flush of main.py)
Flushers == {"f1", "f2"}

\* rows of the agents table; "ghost" is a well-formed agent id that no row
\* of agents carries (execute_proxy audits data.agent_id before the
\* identity lookup when the SSRF guard blocks the URL)
Agents == {"a1"}
AgentIds == {"a1", "ghost"}

VARIABLES
    buffer,        \* Redis list audit:buffer
    processing,    \* Redis list audit:processing
    audit_logs,    \* table audit_logs in ascending id order
    flushLock,     \* Redis key lock:audit:flush (the holder's value or None)
    fl,            \* per flusher: position and locals of flush_buffer
    clock,         \* source of datetime.now() for the entry timestamps
    runs,          \* per execute_proxy run: position, request and locals
    idem_cache,    \* Redis keys idem:<key> (the stored response or None)
    idem_lock,     \* Redis keys idem_lock:<key> (the lock value or None)
    idem_lapsed,   \* history: lock values that Redis expired
    wallet,        \* row of micro_wallets of agent a1
    agent_status,  \* column status of the agents row of a1
    hitl_requests, \* table hitl_requests
    deciders,      \* per decide call: position and locals
    hitl_now,      \* datetime.now() as seen by the HITL gateway
    wallet_transactions, \* table wallet_transactions of the wallet of a1:
                         \* the bag of the rows' amount_usd
    reserve,       \* history of the reserve_and_charge calls
    jit_store,     \* Redis keys jit:<agent_id>:<token>
    vault,         \* row of secret_vault: the sponsor's secret for the service
    cb_trips,      \* Redis list cb:trips:<agent_id>
    trust_score,   \* column trust_score of the agents row of a1, in tenths
    adjusters,     \* per adjust_score call: position and locals
    url_check,     \* a validate_url_async call: the URL, what its hostname
                   \* resolves to, and the result
    rl,            \* the rate limiter for the requests of one client to one
                   \* path: Redis counter, fallback counters, and history
    perm,          \* table agent_permissions of agent a1, the Redis keys
                   \* perm:<agent_id>:<service>, and the calls that use them
    forensic,      \* the columns of audit_logs outside the hash chain, table
                   \* immutable_exports, the export storage, the export_batch
                   \* call, and the history of the statements on the tables
    lifespan,      \* one worker process from start_scheduler to the end of
                   \* its shutdown: the scheduler's flush task, the shutdown
                   \* flush, and the audit queue they work on, by length
    cb_check,      \* a check_and_trip call: what it reads from the Redis
                   \* keys cb:spend and cb:baseline, its amount, its result
    hourly,        \* the Redis key counter:<agent_id>:<service>:<hour>, the
                   \* runs that read and increment it, and the clock hour
    sdk            \* an AegisClient of the SDK: its circuit breaker, the
                   \* monotonic clock, and the history of its execute calls

flushVars == <<processing, audit_logs, flushLock, fl>>

auditVars == <<buffer, processing, audit_logs, flushLock, fl, clock>>

proxyVars == <<runs, idem_cache, idem_lock, idem_lapsed, wallet, agent_status>>

hitlVars == <<hitl_requests, deciders, hitl_now>>

svcVars == <<wallet_transactions, reserve, jit_store, vault, cb_trips,
             trust_score, adjusters>>

extVars == <<url_check, rl, perm, forensic, lifespan, cb_check, hourly, sdk>>

vars == <<buffer, processing, audit_logs, flushLock, fl, clock,
          runs, idem_cache, idem_lock, idem_lapsed, wallet, agent_status,
          hitl_requests, deciders, hitl_now,
          wallet_transactions, reserve, jit_store, vault, cb_trips,
          trust_score, adjusters, extVars>>

(***************************************************************************)
(* utils/crypto.py                                                         *)
(***************************************************************************)
\* sha3_256(f"{previous_hash}:{data}"): injective in (previous_hash, data)
hash_chain(data, previous_hash) == Append(previous_hash, data)

(***************************************************************************)
(* AuditService.log                                                        *)
(***************************************************************************)
\* the canonical JSON of the hashed core fields of an entry; sponsor,
\* action type, service and cost are carried by the entry unchanged and are
\* fixed here
log_data(entry) == [agent_id |-> entry.agent_id, timestamp |-> entry.timestamp]

\* the entry that log serializes; request_id is metadata["request_id"]
\* (0 when the caller passes no metadata)
AuditEntry(agent_id, now, permission_granted, request_id) ==
    [agent_id |-> agent_id, timestamp |-> now,
     permission_granted |-> permission_granted, request_id |-> request_id]

\* redis.rpush(BUFFER_KEY, ...)
Log(agent_id) ==
    /\ clock < MaxEntries
    /\ clock' = clock + 1
    /\ buffer' = Append(buffer, AuditEntry(agent_id, clock + 1, TRUE, 0))
    /\ UNCHANGED <<processing, audit_logs, flushLock, fl>>
    /\ UNCHANGED <<proxyVars, hitlVars>>
    /\ UNCHANGED svcVars
    /\ UNCHANGED extVars

(***************************************************************************)
(* AuditService.flush_buffer                                               *)
(***************************************************************************)
FlushIdle == [pc |-> "idle", buf_len |-> 0, i |-> 0, raw_entries |-> << >>,
              previous_hash |-> GENESIS_HASH]

\* variant: every batch is chained from the genesis hash
LastHashFromGenesis(logs) == GENESIS_HASH

\* select(AuditLog.log_hash).order_by(AuditLog.id.desc()).limit(1)
\*   .scalar_one_or_none() or GENESIS_HASH
LastHash(logs) ==
    IF Len(logs) = 0 THEN GENESIS_HASH ELSE logs[Len(logs)].log_hash

\* Step 4: the rows built from the parsed entries, chained from previous_hash
RECURSIVE BuildChain(_, _)
BuildChain(entries, previous_hash) ==
    IF entries = << >> THEN << >>
    ELSE LET log_hash == hash_chain(log_data(Head(entries)), previous_hash)
         IN  << [log_hash |-> log_hash,
                 previous_hash |-> previous_hash,
                 agent_id |-> Head(entries).agent_id,
                 timestamp |-> Head(entries).timestamp] >>
             \o BuildChain(Tail(entries), log_hash)

\* the constraints of audit_logs that db.commit() enforces: log_hash is
\* unique, agent_id references agents.id
CommitAccepted(logs, rows) ==
    /\ \A k \in 1..Len(rows) : \A j \in 1..Len(logs) :
           rows[k].log_hash # logs[j].log_hash
    /\ \A k, j \in 1..Len(rows) :
           rows[k].log_hash = rows[j].log_hash => k = j
    /\ \A k \in 1..Len(rows) : rows[k].agent_id \in Agents

\* buf_len = await redis.llen(BUFFER_KEY)
FlushLlenBuffer(f) ==
    /\ fl[f].pc = "idle"
    /\ fl' = [fl EXCEPT ![f] = [FlushIdle EXCEPT !.pc = "llen_proc",
                                                 !.buf_len = Len(buffer)]]
    /\ UNCHANGED <<buffer, processing, audit_logs, flushLock, clock>>
    /\ UNCHANGED <<proxyVars, hitlVars>>
    /\ UNCHANGED svcVars
    /\ UNCHANGED extVars

\* proc_len = await redis.llen(PROCESSING_KEY); return 0 when both are 0
FlushLlenProcessing(f) ==
    /\ fl[f].pc = "llen_proc"
    /\ fl' = [fl EXCEPT ![f].pc =
                 IF fl[f].buf_len = 0 /\ Len(processing) = 0
                 THEN "idle" ELSE "lock"]
    /\ UNCHANGED <<buffer, processing, audit_logs, flushLock, clock>>
    /\ UNCHANGED <<proxyVars, hitlVars>>
    /\ UNCHANGED svcVars
    /\ UNCHANGED extVars

\* distributed_lock("audit:flush", ttl_seconds=15, retry_count=1): one
\* SET NX; RuntimeError (caught, return 0) when the key is held
FlushLock(f) ==
    /\ fl[f].pc = "lock"
    /\ IF flushLock = None
       THEN /\ flushLock' = f
            /\ fl' = [fl EXCEPT ![f].pc =
                         IF fl[f].buf_len > 0 THEN "move" ELSE "lrange"]
       ELSE /\ flushLock' = flushLock
            /\ fl' = [fl EXCEPT ![f] = FlushIdle]
    /\ UNCHANGED <<buffer, processing, audit_logs, clock>>
    /\ UNCHANGED <<proxyVars, hitlVars>>
    /\ UNCHANGED svcVars
    /\ UNCHANGED extVars

\* Step 1: one redis.lmove(BUFFER_KEY, PROCESSING_KEY, "LEFT", "RIGHT");
\* the loop ends after min(buf_len, MAX_BATCH) moves or on an empty buffer
FlushMove(f) ==
    /\ fl[f].pc = "move"
    /\ IF buffer = << >>
       THEN /\ fl' = [fl EXCEPT ![f].pc = "lrange"]
            /\ UNCHANGED <<buffer, processing>>
       ELSE /\ buffer' = Tail(buffer)
            /\ processing' = Append(processing, Head(buffer))
            /\ fl' = [fl EXCEPT ![f].i = @ + 1,
                                ![f].pc =
                                    IF fl[f].i + 1 < Min(fl[f].buf_len, MAX_BATCH)
                                    THEN "move" ELSE "lrange"]
    /\ UNCHANGED <<audit_logs, flushLock, clock>>
    /\ UNCHANGED <<proxyVars, hitlVars>>
    /\ UNCHANGED svcVars
    /\ UNCHANGED extVars

\* Step 2: raw_entries = await redis.lrange(PROCESSING_KEY, 0, -1)
FlushLrange(f) ==
    /\ fl[f].pc = "lrange"
    /\ fl' = [fl EXCEPT ![f].raw_entries = processing,
                        ![f].pc = IF processing = << >> THEN "unlock"
                                  ELSE "select"]
    /\ UNCHANGED <<buffer, processing, audit_logs, flushLock, clock>>
    /\ UNCHANGED <<proxyVars, hitlVars>>
    /\ UNCHANGED svcVars
    /\ UNCHANGED extVars

\* Step 3: the last log_hash
FlushSelect(f) ==
    /\ fl[f].pc = "select"
    /\ fl' = [fl EXCEPT ![f].previous_hash = LastHash(audit_logs),
                        ![f].pc = "commit"]
    /\ UNCHANGED <<buffer, processing, audit_logs, flushLock, clock>>
    /\ UNCHANGED <<proxyVars, hitlVars>>
    /\ UNCHANGED svcVars
    /\ UNCHANGED extVars

\* Step 4: db.add_all(db_objects); await db.commit().  A rejected commit
\* raises, persists nothing and is caught by "except Exception".
FlushCommit(f) ==
    /\ fl[f].pc = "commit"
    /\ LET db_objects == BuildChain(fl[f].raw_entries, fl[f].previous_hash)
       IN  IF CommitAccepted(audit_logs, db_objects)
           THEN /\ Len(audit_logs) + Len(db_objects) <= MaxRows
                /\ audit_logs' = audit_logs \o db_objects
                /\ fl' = [fl EXCEPT ![f].pc = "delete"]
           ELSE /\ audit_logs' = audit_logs
                /\ fl' = [fl EXCEPT ![f].pc = "unlock"]
    /\ UNCHANGED <<buffer, processing, flushLock, clock>>
    /\ UNCHANGED <<proxyVars, hitlVars>>
    /\ UNCHANGED svcVars
    /\ UNCHANGED extVars

\* Step 5: await redis.delete(PROCESSING_KEY)
FlushDelete(f) ==
    /\ fl[f].pc = "delete"
    /\ processing' = << >>
    /\ fl' = [fl EXCEPT ![f].pc = "unlock"]
    /\ UNCHANGED <<buffer, audit_logs, flushLock, clock>>
    /\ UNCHANGED <<proxyVars, hitlVars>>
    /\ UNCHANGED svcVars
    /\ UNCHANGED extVars

\* variant: the failure path also drops the processing list
FlushFailDropsProcessing(f) ==
    /\ fl[f].pc \in {"move", "lrange", "select", "commit", "delete"}
    /\ fl' = [fl EXCEPT ![f].pc = "unlock"]
    /\ processing' = << >>
    /\ UNCHANGED <<buffer, audit_logs, flushLock, clock>>
    /\ UNCHANGED <<proxyVars, hitlVars>>
    /\ UNCHANGED svcVars
    /\ UNCHANGED extVars

\* an await inside the lock raises (store error) or the task is cancelled:
\* control leaves the "async with" block through the lock's finally
FlushFail(f) ==
    /\ fl[f].pc \in {"move", "lrange", "select", "commit", "delete"}
    /\ fl' = [fl EXCEPT ![f].pc = "unlock"]
    /\ UNCHANGED <<buffer, processing, audit_logs, flushLock, clock>>
    /\ UNCHANGED <<proxyVars, hitlVars>>
    /\ UNCHANGED svcVars
    /\ UNCHANGED extVars

\* variant: the finally deletes the key whatever it holds
ReleaseLockUnconditional(lock, value) == None

\* distributed_lock's finally: delete the key only if it holds our value
ReleaseLock(lock, value) == IF lock = value THEN None ELSE lock

FlushUnlock(f) ==
    /\ fl[f].pc = "unlock"
    /\ flushLock' = ReleaseLock(flushLock, f)
    /\ fl' = [fl EXCEPT ![f] = FlushIdle]
    /\ UNCHANGED <<buffer, processing, audit_logs, clock>>
    /\ UNCHANGED <<proxyVars, hitlVars>>
    /\ UNCHANGED svcVars
    /\ UNCHANGED extVars

\* Redis expires lock:audit:flush after ttl_seconds
FlushLockExpire ==
    /\ flushLock # None
    /\ flushLock' = None
    /\ UNCHANGED <<buffer, processing, audit_logs, fl, clock>>
    /\ UNCHANGED <<proxyVars, hitlVars>>
    /\ UNCHANGED svcVars
    /\ UNCHANGED extVars

\* AuditService.verify_chain_integrity: the ids of the broken rows
verify_chain_integrity(logs) ==
    LET broken == {i \in 1..Len(logs) :
                      IF i = 1 THEN logs[i].previous_hash # GENESIS_HASH
                      ELSE logs[i].previous_hash # logs[i - 1].log_hash}
    IN  [valid |-> broken = {}, checked |-> Len(logs), broken_at |-> broken]

(***************************************************************************)
(* utils/idempotency.py                                                    *)
(***************************************************************************)
\* json.dumps(response.model_dump(mode="json")) and json.loads followed by
\* ProxyResponse(**cached): the stored text and the response parsed from it
json_dumps(response) == <<"json", response>>

json_loads(cached) == cached[2]

\* check_idempotency: the parsed cached response, or None
check_idempotency(cache, key) ==
    IF cache[key] # Nil THEN json_loads(cache[key]) ELSE NoResponse

\* store_idempotency: redis.setex(idem:<key>, IDEM_TTL, json.dumps(response))
store_idempotency(cache, key, response) ==
    [cache EXCEPT ![key] = json_dumps(response)]

\* variant: SET without NX, the lock is overwritten
lock_idempotency_overwrite(lock, key, lock_value) ==
    [lock EXCEPT ![key] = <<lock_value>>]

\* lock_idempotency: redis.set(idem_lock:<key>, lock_value, nx=True, ex=ttl)
\* with lock_value = uuid4(), modelled by the number of the calling run;
\* the lock after the call (the caller learns whether the value was set)
lock_idempotency(lock, key, lock_value) ==
    IF lock[key] = Nil THEN [lock EXCEPT ![key] = <<lock_value>>] ELSE lock

\* unlock_idempotency(key, lock_value): the compare-and-delete script
unlock_idempotency(lock, key, lock_value) ==
    [lock EXCEPT ![key] = IF @ = <<lock_value>> THEN Nil ELSE @]

\* the parameters of unlock_idempotency, and the arguments that the finally
\* block of execute_proxy passes to it
UnlockParameters == <<"key", "lock_value">>

UnlockArguments == <<"idem_key">>

(***************************************************************************)
(* WalletService                                                           *)
(***************************************************************************)
\* the date of datetime.now(timezone.utc): the model spans one day of one
\* month
UtcNow == [day |-> 0, month |-> 0]

\* variant: the daily counter is reset on every call
check_and_reset_periods_always(w, now) ==
    [w EXCEPT !.spent_today = 0, !.last_reset_daily = now.day]

check_and_reset_periods(w, now) ==
    LET d == IF w.last_reset_daily < now.day
             THEN [w EXCEPT !.spent_today = 0, !.last_reset_daily = now.day]
             ELSE w
    IN  IF d.last_reset_monthly < now.month
        THEN [d EXCEPT !.spent_this_month = 0, !.last_reset_monthly = now.month]
        ELSE d

\* can_spend: the preflight verdict
can_spend(w0, amount) ==
    IF w0.is_frozen THEN FALSE
    ELSE LET w == check_and_reset_periods(w0, UtcNow)
         IN  /\ ~(w.balance < amount)
             /\ ~(w.spent_today + amount > w.daily_limit)
             /\ ~(w.spent_this_month + amount > w.monthly_limit)

\* charge: the wallet row after the commit (no check of balance, limits or
\* the frozen flag)
charge(w0, amount) ==
    LET w == check_and_reset_periods(w0, UtcNow)
    IN  [w EXCEPT !.balance = @ - amount,
                  !.spent_today = @ + amount,
                  !.spent_this_month = @ + amount]

\* top_up: the wallet row after the commit
top_up(w, amount) == [w EXCEPT !.balance = @ + amount]

\* freeze_wallet
freeze_wallet(w) == [w EXCEPT !.is_frozen = TRUE]

\* db.add(WalletTransaction(amount_usd=amount, ...)) and the commit
AddRow(rows, amount) == rows (+) SetToBag({amount})

\* the result (ok, reason, transaction) of a reserve_and_charge call; the
\* amount of the transaction row, or Nil for None
ReserveResult(ok, reason, tx) == [ok |-> ok, reason |-> reason, tx |-> tx]

\* variant: a denial commits what check_and_reset_periods set
reserve_and_charge_commits_reset(w0, amount) ==
    IF w0.is_frozen
    THEN [result |-> ReserveResult(FALSE, "Wallet is frozen", Nil), wallet |-> w0]
    ELSE LET w == check_and_reset_periods(w0, UtcNow)
         IN  IF w.balance < amount
             THEN [result |-> ReserveResult(FALSE, "Insufficient balance", Nil),
                   wallet |-> w]
             ELSE IF w.spent_today + amount > w.daily_limit
             THEN [result |-> ReserveResult(FALSE, "Daily limit exceeded", Nil),
                   wallet |-> w]
             ELSE IF w.spent_this_month + amount > w.monthly_limit
             THEN [result |-> ReserveResult(FALSE, "Monthly limit exceeded", Nil),
                   wallet |-> w]
             ELSE [result |-> ReserveResult(TRUE, "OK", <<0 - amount>>),
                   wallet |-> [w EXCEPT !.balance = @ - amount,
                                        !.spent_today = @ + amount,
                                        !.spent_this_month = @ + amount]]

\* reserve_and_charge on the row w0 selected FOR UPDATE: the result and the
\* row that is persisted when the call returns.  The denials return before
\* any commit, so what check_and_reset_periods set on the session's copy is
\* not written.
reserve_and_charge(w0, amount) ==
    IF w0.is_frozen
    THEN [result |-> ReserveResult(FALSE, "Wallet is frozen", Nil), wallet |-> w0]
    ELSE LET w == check_and_reset_periods(w0, UtcNow)
         IN  IF w.balance < amount
             THEN [result |-> ReserveResult(FALSE, "Insufficient balance", Nil),
                   wallet |-> w0]
             ELSE IF w.spent_today + amount > w.daily_limit
             THEN [result |-> ReserveResult(FALSE, "Daily limit exceeded", Nil),
                   wallet |-> w0]
             ELSE IF w.spent_this_month + amount > w.monthly_limit
             THEN [result |-> ReserveResult(FALSE, "Monthly limit exceeded", Nil),
                   wallet |-> w0]
             ELSE [result |-> ReserveResult(TRUE, "OK", <<0 - amount>>),
                   wallet |-> [w EXCEPT !.balance = @ - amount,
                                        !.spent_today = @ + amount,
                                        !.spent_this_month = @ + amount]]

\* no reserve_and_charge call has been made
NoResult == ReserveResult(FALSE, "", Nil)

\* a call of reserve_and_charge for agent_id; the row lock serializes the
\* calls on one wallet.  An agent without a wallet row gets "No wallet found".
ReserveAndCharge(agent_id, amount) ==
    /\ amount \in reserve.amounts
    /\ LET res == IF agent_id \in Agents
                  THEN reserve_and_charge(wallet, amount)
                  ELSE [result |-> ReserveResult(FALSE, "No wallet found", Nil),
                        wallet |-> wallet]
       IN  /\ wallet' = res.wallet
           /\ wallet_transactions' =
                  IF res.result.tx # Nil
                  THEN AddRow(wallet_transactions, res.result.tx[1])
                  ELSE wallet_transactions
           /\ reserve' = [reserve EXCEPT
                  !.last = res.result,
                  !.sum = IF res.result.ok THEN @ + amount ELSE @]
    /\ UNCHANGED <<runs, idem_cache, idem_lock, idem_lapsed, agent_status>>
    /\ UNCHANGED <<jit_store, vault, cb_trips, trust_score, adjusters>>
    /\ UNCHANGED <<auditVars, hitlVars>>
    /\ UNCHANGED extVars

\* the wallet of test_rapid_small_charges_exhaust_daily, in cents: balance
\* 100.00, daily limit 10.00, monthly limit 200.00 (the column default),
\* charged 0.11 at a time
ExampleBalance == 10000

ExampleDailyLimit == 1000

ExampleMonthlyLimit == 20000

ExampleAmount == 11

\* the number of charges of ExampleAmount that fit the daily limit
ExampleSuccesses == ExampleDailyLimit \div ExampleAmount

Wallet(balance, daily, monthly, today, month, reset_d, reset_m, frozen) ==
    [balance |-> balance, daily_limit |-> daily, monthly_limit |-> monthly,
     spent_today |-> today, spent_this_month |-> month,
     last_reset_daily |-> reset_d, last_reset_monthly |-> reset_m,
     is_frozen |-> frozen]

ExampleWallet ==
    Wallet(ExampleBalance, ExampleDailyLimit, ExampleMonthlyLimit, 0, 0,
           UtcNow.day, UtcNow.month, FALSE)

\* small wallets that the service can have produced: balance >= 0 and the
\* spent counters within the limits; last reset today or the day before,
\* this month or the month before
SmallWallets ==
    { Wallet(b, d, 3, t, m, rd, rm, f) :
        b \in 0..MaxBalance, d \in 1..2, t \in 0..1, m \in 1..2,
        rd \in {UtcNow.day - 1, UtcNow.day},
        rm \in {UtcNow.month - 1, UtcNow.month}, f \in BOOLEAN }

(***************************************************************************)
(* services/trust_engine.py (scores in tenths of a point)                  *)
(***************************************************************************)
MIN_TRUST_SCORE == 0

MAX_TRUST_SCORE == 1000

DEFAULT_TRUST_SCORE == 500

REWARD_SUCCESSFUL_ACTION == 1

PENALTY_POLICY_VIOLATION == -20

PENALTY_ANOMALY == -50

PENALTY_CIRCUIT_BREAK == -150

PENALTY_PROMPT_INJECTION == -100

\* reward_success, penalize_violation, penalize_anomaly,
\* penalize_circuit_break, penalize_injection
TrustDeltas == {REWARD_SUCCESSFUL_ACTION, PENALTY_POLICY_VIOLATION,
                PENALTY_ANOMALY, PENALTY_CIRCUIT_BREAK,
                PENALTY_PROMPT_INJECTION}

Max(a, b) == IF a > b THEN a ELSE b

\* variant: the sum is stored as it is
Unclamped(new_score) == new_score

\* max(MIN_TRUST_SCORE, min(MAX_TRUST_SCORE, new_score))
Clamp(new_score) == Max(MIN_TRUST_SCORE, Min(MAX_TRUST_SCORE, new_score))

Adjusters == {"t1", "t2"}

AdjusterIdle == [pc |-> "idle", delta |-> 0, new_score |-> 0, calls |-> 0]

\* adjust_score up to its commit: select the agent, compute the new score
\* and set it on the session's copy
AdjustSelect(a, delta) ==
    /\ adjusters[a].pc = "idle"
    /\ adjusters[a].calls < MaxAdjust
    /\ adjusters' = [adjusters EXCEPT ![a] =
           [pc |-> "commit", delta |-> delta,
            new_score |-> Clamp(trust_score + delta), calls |-> @.calls + 1]]
    /\ UNCHANGED <<wallet_transactions, reserve, jit_store, vault, cb_trips,
                   trust_score>>
    /\ UNCHANGED <<auditVars, proxyVars, hitlVars>>
    /\ UNCHANGED extVars

\* await db.commit(): the UPDATE writes the score computed from the read
AdjustCommit(a) ==
    /\ adjusters[a].pc = "commit"
    /\ trust_score' = adjusters[a].new_score
    /\ adjusters' = [adjusters EXCEPT ![a].pc = "idle"]
    /\ UNCHANGED <<wallet_transactions, reserve, jit_store, vault, cb_trips>>
    /\ UNCHANGED <<auditVars, proxyVars, hitlVars>>
    /\ UNCHANGED extVars

\* the ways an execute_proxy run can end, by the stage that ends it
Outcomes == {"ssrf", "agent_status", "firewall", "anomaly", "no_permission",
             "wallet", "circuit", "policy", "hitl", "executed_ok",
             "executed_error"}

\* the delta of the TrustEngine call that execute_proxy makes on an outcome
\* (penalize_injection, penalize_anomaly, penalize_circuit_break,
\* penalize_violation, reward_success), 0 where it makes none
OutcomeDelta(outcome) ==
    CASE outcome = "firewall" -> PENALTY_PROMPT_INJECTION
      [] outcome = "anomaly" -> PENALTY_ANOMALY
      [] outcome = "circuit" -> PENALTY_CIRCUIT_BREAK
      [] outcome = "policy" -> PENALTY_POLICY_VIOLATION
      [] outcome = "executed_ok" -> REWARD_SUCCESSFUL_ACTION
      [] OTHER -> 0

\* get_autonomy_level(trust_score)["level"]
get_autonomy_level(score) ==
    IF score >= 800 THEN "high"
    ELSE IF score >= 600 THEN "medium"
    ELSE IF score >= 400 THEN "standard"
    ELSE IF score >= 200 THEN "restricted"
    ELSE "quarantine"

\* a run of the agent reaches its outcome: the TrustEngine call of that
\* outcome begins, or the run ends without one
PipelineOutcome(a, outcome) ==
    IF OutcomeDelta(outcome) # 0
    THEN AdjustSelect(a, OutcomeDelta(outcome))
    ELSE /\ adjusters[a].pc = "idle"
         /\ adjusters[a].calls < MaxAdjust
         /\ adjusters' = [adjusters EXCEPT ![a].calls = @ + 1,
                                           ![a].delta = 0,
                                           ![a].new_score = trust_score]
         /\ UNCHANGED <<wallet_transactions, reserve, jit_store, vault,
                        cb_trips, trust_score>>
         /\ UNCHANGED <<auditVars, proxyVars, hitlVars>>
         /\ UNCHANGED extVars

(***************************************************************************)
(* services/hitl_gateway.py                                                *)
(***************************************************************************)
Deciders == {"d1", "d2"}

Users == {"u1", "u2"}

Notes == {"", "n"}

DeciderIdle == [pc |-> "idle", request_id |-> 0, status |-> "pending",
                user_id |-> "", note |-> ""]

\* the instant datetime.now() of the gateway, in minutes: the clock of the
\* model advances in steps of the expiry period
NowMinutes == hitl_now * HITL_EXPIRY_MINUTES

\* HITLRequest(status=PENDING, expires_at=now + timedelta(minutes=30));
\* decided_by, decision_note and decided_at are still NULL
NewRequest(now) == [status |-> "pending", decided_by |-> "",
                    decision_note |-> "", decided_at |-> -1,
                    expires_at |-> now + HITL_EXPIRY_MINUTES]

\* create_request: db.add(req); await db.commit()
HitlCreate ==
    /\ Len(hitl_requests) < MaxRequests
    /\ hitl_requests' = Append(hitl_requests, NewRequest(NowMinutes))
    /\ UNCHANGED <<deciders, hitl_now>>
    /\ UNCHANGED <<auditVars, proxyVars>>
    /\ UNCHANGED svcVars
    /\ UNCHANGED extVars

\* variant: the request counts as expired from expires_at on
DecideSelectExpiresEarly(d, request_id, user_id, approved, note) ==
    /\ deciders[d].pc = "idle"
    /\ request_id \in DOMAIN hitl_requests
    /\ LET req == hitl_requests[request_id]
       IN  deciders' = [deciders EXCEPT ![d] =
               IF req.status # "pending" THEN DeciderIdle
               ELSE IF NowMinutes >= req.expires_at
               THEN [pc |-> "commit", request_id |-> request_id,
                     status |-> "expired", user_id |-> "", note |-> ""]
               ELSE [pc |-> "commit", request_id |-> request_id,
                     status |-> IF approved THEN "approved" ELSE "rejected",
                     user_id |-> user_id, note |-> note]]
    /\ UNCHANGED <<hitl_requests, hitl_now>>
    /\ UNCHANGED <<auditVars, proxyVars>>
    /\ UNCHANGED svcVars
    /\ UNCHANGED extVars

\* decide, up to its commit: select the request into the session; return it
\* unchanged when it is not pending; else set the attributes that the
\* commit will write ("expired" when now > expires_at, else the decision)
DecideSelect(d, request_id, user_id, approved, note) ==
    /\ deciders[d].pc = "idle"
    /\ request_id \in DOMAIN hitl_requests
    /\ LET req == hitl_requests[request_id]
       IN  deciders' = [deciders EXCEPT ![d] =
               IF req.status # "pending" THEN DeciderIdle
               ELSE IF NowMinutes > req.expires_at
               THEN [pc |-> "commit", request_id |-> request_id,
                     status |-> "expired", user_id |-> "", note |-> ""]
               ELSE [pc |-> "commit", request_id |-> request_id,
                     status |-> IF approved THEN "approved" ELSE "rejected",
                     user_id |-> user_id, note |-> note]]
    /\ UNCHANGED <<hitl_requests, hitl_now>>
    /\ UNCHANGED <<auditVars, proxyVars>>
    /\ UNCHANGED svcVars
    /\ UNCHANGED extVars

\* the UPDATE that await db.commit() sends: the attributes set on the
\* session's copy, whatever the row holds by now
DecideWrite(row, dec, now) ==
    IF dec.status = "expired" THEN [row EXCEPT !.status = "expired"]
    ELSE [row EXCEPT !.status = dec.status, !.decided_by = dec.user_id,
                     !.decision_note = dec.note, !.decided_at = now]

DecideCommit(d) ==
    /\ deciders[d].pc = "commit"
    /\ hitl_requests' = [hitl_requests EXCEPT ![deciders[d].request_id] =
                            DecideWrite(@, deciders[d], NowMinutes)]
    /\ deciders' = [deciders EXCEPT ![d] = DeciderIdle]
    /\ UNCHANGED hitl_now
    /\ UNCHANGED <<auditVars, proxyVars>>
    /\ UNCHANGED svcVars
    /\ UNCHANGED extVars

\* time passes
HitlTick ==
    /\ hitl_now < MaxTicks
    /\ hitl_now' = hitl_now + 1
    /\ UNCHANGED <<hitl_requests, deciders>>
    /\ UNCHANGED <<auditVars, proxyVars>>
    /\ UNCHANGED svcVars
    /\ UNCHANGED extVars

(***************************************************************************)
(* services/jit_broker.py, services/identity_service.py                    *)
(***************************************************************************)
\* the values a vault secret can have
Secrets == {"s1", "s2"}

\* utils/crypto.py: encrypt_secret / decrypt_secret
encrypt_secret(secret) == <<"fernet", secret>>

decrypt_secret(encrypted_secret) == encrypted_secret[2]

\* resolve_token found no key
NoToken == [real_secret |-> "", agent_id |-> ""]

\* mint_ephemeral_token: redis.setex(jit:<agent_id>:<token>, ttl, token_data)
mint_ephemeral_token(store, token, agent_id, encrypted_secret) ==
    [store EXCEPT ![token] =
        json_dumps([real_secret |-> decrypt_secret(encrypted_secret),
                    agent_id |-> agent_id])]

\* resolve_token: scan jit:*:<token>, get, json.loads
resolve_token(store, token) ==
    IF store[token] = Nil THEN NoToken ELSE json_loads(store[token])

\* variant: the scan pattern matches no key, nothing is deleted
revoke_token_no_match(store, token) == store

\* revoke_token: scan jit:*:<token>, delete each key
revoke_token(store, token) == [store EXCEPT ![token] = Nil]

\* revoke_all_for_agent: scan jit:<agent_id>:*, delete the keys
revoke_all_for_agent(store, agent_id) ==
    [t \in DOMAIN store |->
        IF store[t] # Nil /\ json_loads(store[t]).agent_id = agent_id
        THEN Nil ELSE store[t]]

\* tokens of the agent that resolve
LiveTokens(store, agent_id) ==
    {t \in DOMAIN store : resolve_token(store, t).agent_id = agent_id}

\* cb:trips list: lpush(now) then ltrim(0, 99)
TRIP_LIST_MAX == 100

push_trip(trips, now) == SubSeq(<<now>> \o trips, 1, Min(Len(trips) + 1, TRIP_LIST_MAX))

(***************************************************************************)
(* utils/ssrf_guard.py                                                     *)
(***************************************************************************)
Schemes == {"http", "https", "ftp"}

\* hostnames of the URLs checked: none, blocked names in either case,
\* literal addresses, and a name that is resolved by DNS
Hostnames == {"", "localhost", "LOCALHOST", "10.0.0.1", "8.8.8.8", "name.test"}

\* the strings that ipaddress.ip_address accepts
IpLiterals == {"10.0.0.1", "127.0.0.1", "8.8.8.8"}

\* the addresses that lie in one of BLOCKED_NETWORKS
BLOCKED_NETWORKS == {"10.0.0.1", "127.0.0.1"}

BLOCKED_HOSTNAMES == {"localhost", "metadata.google.internal",
                      "metadata.google.com", "kubernetes.default.svc"}

\* str.lower on the hostnames above
lower(hostname) == IF hostname = "LOCALHOST" THEN "localhost" ELSE hostname

\* what getaddrinfo gives for a name: addresses, or socket.gaierror
Resolutions ==
    {[gaierror |-> FALSE, addrs |-> a] : a \in (SUBSET IpLiterals) \ {{}}}
    \cup {[gaierror |-> TRUE, addrs |-> {}]}

Urls == [scheme : Schemes, hostname : Hostnames, resolves : Resolutions]

\* _check_ip: True if the string is an address in a blocked network; False
\* for a blocked-free address and, through its except ValueError, for a
\* string that is no address
_check_ip(ip_str) == ip_str \in IpLiterals /\ ip_str \in BLOCKED_NETWORKS

UrlResult(is_safe, reason, resolved_ips) ==
    [is_safe |-> is_safe, reason |-> reason, resolved_ips |-> resolved_ips]

\* validate_url_async: "return True, OK, [hostname]" follows the _check_ip
\* test inside the try, and _check_ip raises nothing, so the DNS part below
\* that try is not reached
validate_url_async(url) ==
    IF url.scheme \notin {"http", "https"}
    THEN UrlResult(FALSE, "Blocked scheme", {})
    ELSE IF url.hostname = ""
    THEN UrlResult(FALSE, "No hostname", {})
    ELSE IF lower(url.hostname) \in BLOCKED_HOSTNAMES
    THEN UrlResult(FALSE, "Blocked hostname", {})
    ELSE IF _check_ip(url.hostname)
    THEN UrlResult(FALSE, "Blocked IP", {})
    ELSE UrlResult(TRUE, "OK", {url.hostname})

NoUrlCheck == [url |-> [scheme |-> "", hostname |-> "",
                        resolves |-> [gaierror |-> TRUE, addrs |-> {}]],
               result |-> UrlResult(FALSE, "", {}), called |-> FALSE]

ValidateUrl ==
    /\ ~url_check.called
    /\ url_check' = [url_check EXCEPT !.result = validate_url_async(url_check.url),
                                      !.called = TRUE]
    /\ UNCHANGED <<rl, perm, forensic, lifespan, cb_check, hourly, sdk>>
    /\ UNCHANGED <<auditVars, proxyVars, hitlVars>>
    /\ UNCHANGED svcVars

(***************************************************************************)
(* middleware/pure_asgi.py: RateLimiterASGI                                *)
(***************************************************************************)
GLOBAL_RATE_LIMIT_PER_MINUTE == 60

AUTH_RATE_LIMIT_PER_MINUTE == 10

\* "min(limit, 30)" of the in-memory fallback
FALLBACK_LIMIT == 30

\* headers={"Retry-After": "60"}
RETRY_AFTER == 60

SKIP_PATHS == {"/health", "/metrics", "/docs", "/openapi.json", "/redoc"}

\* the paths requested: one skipped, one below the auth prefix, one other
Paths == {"/health", "/api/v1/auth/login", "/api/v1/proxy/execute"}

\* path.startswith(API_V1_PREFIX + "/auth")
is_auth(path) == path = "/api/v1/auth/login"

RateLimit(path) ==
    IF is_auth(path) THEN AUTH_RATE_LIMIT_PER_MINUTE
    ELSE GLOBAL_RATE_LIMIT_PER_MINUTE

\* the Response(status_code=429, headers={"Retry-After": "60"}) sent instead
\* of the application's response
RateLimited == [status |-> 429, retry_after |-> RETRY_AFTER, forwarded |-> FALSE]

\* "await self.app(scope, receive, send)"
Forwarded == [status |-> 200, retry_after |-> 0, forwarded |-> TRUE]

\* variant: with the store failing the request is passed on uncounted
fallback_fail_open(count, limit) == Forwarded

\* the except branch after the counter is incremented
fallback(count, limit) ==
    IF count > Min(limit, FALLBACK_LIMIT) THEN RateLimited ELSE Forwarded

\* the try branch after INCR has returned current
counted(current, limit) == IF current > limit THEN RateLimited ELSE Forwarded

RlNew(path) ==
    [path |-> path, window |-> 0, redis |-> 0,
     fallback_counter |-> 0, fallback_window |-> 0,
     fwd_up |-> 0, fwd_down |-> 0, last |-> Forwarded, last_up |-> TRUE]

\* one request of the client to the path in the current window.  store is
\* "up" (INCR and EXPIRE answer), "down" (the pipeline raises before INCR is
\* applied) or "lost" (INCR is applied and the pipeline raises afterwards)
RateLimiterRequest(store) ==
    LET limit == RateLimit(rl.path)
        redis == IF store \in {"up", "lost"} THEN rl.redis + 1 ELSE rl.redis
        stale == rl.fallback_window # rl.window
        fb == (IF stale THEN 0 ELSE rl.fallback_counter) + 1
    IN  /\ rl.redis <= limit + MaxOver
        /\ rl.fallback_counter <= Min(limit, FALLBACK_LIMIT) + MaxOver
        /\ rl.fwd_up <= limit + MaxOver
        /\ IF rl.path \in SKIP_PATHS
           THEN rl' = [rl EXCEPT !.fwd_up = @ + 1, !.last = Forwarded,
                                 !.last_up = TRUE]
           ELSE IF store = "up"
           THEN LET res == counted(redis, limit)
                IN  rl' = [rl EXCEPT !.redis = redis, !.last = res,
                                     !.last_up = TRUE,
                                     !.fwd_up = IF res.forwarded THEN @ + 1 ELSE @]
           ELSE LET res == fallback(fb, limit)
                IN  rl' = [rl EXCEPT !.redis = redis, !.last = res,
                                     !.last_up = FALSE,
                                     !.fallback_counter = fb,
                                     !.fallback_window = rl.window,
                                     !.fwd_down = IF res.forwarded THEN @ + 1 ELSE @]
        /\ UNCHANGED <<url_check, perm, forensic, lifespan, cb_check, hourly, sdk>>
        /\ UNCHANGED <<auditVars, proxyVars, hitlVars>>
        /\ UNCHANGED svcVars

\* the next minute begins: int(time.time()) // 60 changes, the key of the
\* new window has no counter yet; the forwarded counts are per window
RateLimiterTick ==
    /\ rl.window < MaxWindow
    /\ rl' = [rl EXCEPT !.window = @ + 1, !.redis = 0,
                        !.fwd_up = 0, !.fwd_down = 0]
    /\ UNCHANGED <<url_check, perm, forensic, lifespan, cb_check, hourly, sdk>>
    /\ UNCHANGED <<auditVars, proxyVars, hitlVars>>
    /\ UNCHANGED svcVars

(***************************************************************************)
(* api/agents.py: add_permission, delete_permission; utils/cache.py;       *)
(* api/proxy.py stage 5                                                    *)
(***************************************************************************)
\* the services that agent a1 is given permissions for
Services == {"s1", "s2"}

\* the calls of add_permission / delete_permission explored
PermWriters == {"w1", "w2"}

\* the execute_proxy runs whose permission stage is explored
Lookers == {"p1"}

\* CACHE_TTL: the lifetime of a perm: key, in seconds
CACHE_TTL == 300

\* the rows of agent_permissions with the given agent and service;
\* is_active defaults to True and nothing in the code clears it
ActiveRows(rows, service_name) == {r \in rows : r.service_name = service_name}

\* the dict that stage 5 caches, identified by the row it was taken from
CachedPerm(perm_obj) == <<perm_obj.id>>

\* variant: the key is left alone
invalidate_cached_permission_noop(cache, service_name) == cache

\* redis.delete(_cache_key(agent_id, service_name))
invalidate_cached_permission(cache, service_name) ==
    [cache EXCEPT ![service_name] = Nil]

\* redis.setex(_cache_key(agent_id, service_name), CACHE_TTL, ...)
set_cached_permission(cache, service_name, permission) ==
    [cache EXCEPT ![service_name] = permission]

WriterIdle == [pc |-> "idle", op |-> "", service_name |-> "", perm_id |-> 0,
               dropped |-> FALSE, overlap |-> FALSE]

LookerIdle == [pc |-> "idle", service_name |-> "", perm_id |-> 0,
               found |-> 0]

PermNew == [rows |-> {}, next_id |-> 0,
            cache |-> [s \in Services |-> Nil],
            writers |-> [w \in PermWriters |-> WriterIdle],
            lookers |-> [p \in Lookers |-> LookerIdle]]

\* an execute_proxy run for the service is between its cache read and its end
LookupInFlight(service_name) ==
    \E p \in Lookers : /\ perm.lookers[p].pc # "idle"
                       /\ perm.lookers[p].service_name = service_name

\* add_permission up to db.add(perm): the sponsor owns the agent; nothing
\* is looked up about the permissions the agent already has
AddPermissionBegin(w, service_name) ==
    /\ perm.writers[w].pc = "idle"
    /\ perm.next_id < MaxPerms
    /\ perm' = [perm EXCEPT !.writers[w] =
                   [WriterIdle EXCEPT !.pc = "commit", !.op = "add",
                                      !.service_name = service_name]]
    /\ UNCHANGED <<url_check, rl, forensic, lifespan, cb_check, hourly, sdk>>
    /\ UNCHANGED <<auditVars, proxyVars, hitlVars>>
    /\ UNCHANGED svcVars

\* await db.commit(); await db.refresh(perm): the row is inserted, there is
\* no constraint on (agent_id, service_name) to reject it
AddPermissionCommit(w) ==
    /\ perm.writers[w].pc = "commit"
    /\ perm.writers[w].op = "add"
    /\ perm.next_id < MaxPerms
    /\ perm' = [perm EXCEPT
                   !.rows = @ \cup {[id |-> perm.next_id + 1,
                                     service_name |-> perm.writers[w].service_name]},
                   !.next_id = @ + 1,
                   !.writers[w].perm_id = perm.next_id + 1,
                   !.writers[w].pc = "invalidate"]
    /\ UNCHANGED <<url_check, rl, forensic, lifespan, cb_check, hourly, sdk>>
    /\ UNCHANGED <<auditVars, proxyVars, hitlVars>>
    /\ UNCHANGED svcVars

\* delete_permission up to the select by id and agent; with no such row
\* the call answers 404 and has changed nothing
DeletePermissionSelect(w, perm_id) ==
    /\ perm.writers[w].pc = "idle"
    /\ LET found == {r \in perm.rows : r.id = perm_id}
       IN  /\ found # {}
           /\ perm' = [perm EXCEPT !.writers[w] =
                          [WriterIdle EXCEPT
                              !.pc = "commit", !.op = "delete",
                              !.perm_id = perm_id,
                              !.service_name =
                                  (CHOOSE r \in found : TRUE).service_name]]
    /\ UNCHANGED <<url_check, rl, forensic, lifespan, cb_check, hourly, sdk>>
    /\ UNCHANGED <<auditVars, proxyVars, hitlVars>>
    /\ UNCHANGED svcVars

\* await db.delete(perm); await db.commit(): the DELETE of a row that
\* another call has deleted meanwhile matches nothing and raises (500)
DeletePermissionCommit(w) ==
    /\ perm.writers[w].pc = "commit"
    /\ perm.writers[w].op = "delete"
    /\ LET row == [id |-> perm.writers[w].perm_id,
                   service_name |-> perm.writers[w].service_name]
       IN  IF row \in perm.rows
           THEN perm' = [perm EXCEPT !.rows = @ \ {row},
                                     !.writers[w].pc = "invalidate"]
           ELSE perm' = [perm EXCEPT !.writers[w] = WriterIdle]
    /\ UNCHANGED <<url_check, rl, forensic, lifespan, cb_check, hourly, sdk>>
    /\ UNCHANGED <<auditVars, proxyVars, hitlVars>>
    /\ UNCHANGED svcVars

\* await invalidate_cached_permission(agent_id, service_name): Redis
\* executes the DEL
PermissionInvalidate(w) ==
    /\ perm.writers[w].pc = "invalidate"
    /\ perm' = [perm EXCEPT
                   !.cache = invalidate_cached_permission(
                                 @, perm.writers[w].service_name),
                   !.writers[w].pc = "return",
                   !.writers[w].dropped =
                       perm.cache[perm.writers[w].service_name] # Nil,
                   !.writers[w].overlap =
                       LookupInFlight(perm.writers[w].service_name)]
    /\ UNCHANGED <<url_check, rl, forensic, lifespan, cb_check, hourly, sdk>>
    /\ UNCHANGED <<auditVars, proxyVars, hitlVars>>
    /\ UNCHANGED svcVars

\* the store does not answer: the call raises after its commit, the
\* endpoint answers 500 and the key stays until it expires
PermissionInvalidateFail(w) ==
    /\ perm.writers[w].pc = "invalidate"
    /\ perm' = [perm EXCEPT !.writers[w] = WriterIdle]
    /\ UNCHANGED <<url_check, rl, forensic, lifespan, cb_check, hourly, sdk>>
    /\ UNCHANGED <<auditVars, proxyVars, hitlVars>>
    /\ UNCHANGED svcVars

\* the reply of the DEL has arrived: return perm (201) / return (204)
PermissionReturn(w) ==
    /\ perm.writers[w].pc = "return"
    /\ perm' = [perm EXCEPT !.writers[w] = WriterIdle]
    /\ UNCHANGED <<url_check, rl, forensic, lifespan, cb_check, hourly, sdk>>
    /\ UNCHANGED <<auditVars, proxyVars, hitlVars>>
    /\ UNCHANGED svcVars

\* execute_proxy stage 5: cached_perm = await get_cached_permission(...)
LookupGet(p, service_name) ==
    /\ perm.lookers[p].pc = "idle"
    /\ perm' = [perm EXCEPT
                   !.lookers[p] =
                       IF perm.cache[service_name] # Nil
                       THEN [LookerIdle EXCEPT
                                !.pc = "rest", !.service_name = service_name,
                                !.perm_id = perm.cache[service_name][1]]
                       ELSE [LookerIdle EXCEPT
                                !.pc = "select", !.service_name = service_name],
                   !.writers = [w \in PermWriters |->
                       IF /\ perm.writers[w].pc = "return"
                          /\ perm.writers[w].service_name = service_name
                       THEN [perm.writers[w] EXCEPT !.overlap = TRUE]
                       ELSE perm.writers[w]]]
    /\ UNCHANGED <<url_check, rl, forensic, lifespan, cb_check, hourly, sdk>>
    /\ UNCHANGED <<auditVars, proxyVars, hitlVars>>
    /\ UNCHANGED svcVars

\* the select of the active rows and scalar_one_or_none(): no row blocks the
\* run (NO_PERMISSION), more than one row raises MultipleResultsFound
LookupSelect(p) ==
    /\ perm.lookers[p].pc = "select"
    /\ LET found == ActiveRows(perm.rows, perm.lookers[p].service_name)
       IN  perm' = [perm EXCEPT
                       !.lookers[p].found = Cardinality(found),
                       !.lookers[p].perm_id =
                           IF Cardinality(found) = 1
                           THEN (CHOOSE r \in found : TRUE).id ELSE 0,
                       !.lookers[p].pc =
                           IF Cardinality(found) = 1 THEN "set" ELSE "rest"]
    /\ UNCHANGED <<url_check, rl, forensic, lifespan, cb_check, hourly, sdk>>
    /\ UNCHANGED <<auditVars, proxyVars, hitlVars>>
    /\ UNCHANGED svcVars

\* await set_cached_permission(agent.id, data.service_name, cached_perm)
LookupSet(p) ==
    /\ perm.lookers[p].pc = "set"
    /\ perm' = [perm EXCEPT
                   !.cache = set_cached_permission(
                                 @, perm.lookers[p].service_name,
                                 CachedPerm([id |-> perm.lookers[p].perm_id])),
                   !.lookers[p].pc = "rest"]
    /\ UNCHANGED <<url_check, rl, forensic, lifespan, cb_check, hourly, sdk>>
    /\ UNCHANGED <<auditVars, proxyVars, hitlVars>>
    /\ UNCHANGED svcVars

\* the rest of the run, to its response
LookupEnd(p) ==
    /\ perm.lookers[p].pc = "rest"
    /\ perm' = [perm EXCEPT !.lookers[p] = LookerIdle]
    /\ UNCHANGED <<url_check, rl, forensic, lifespan, cb_check, hourly, sdk>>
    /\ UNCHANGED <<auditVars, proxyVars, hitlVars>>
    /\ UNCHANGED svcVars

\* Redis expires a perm: key CACHE_TTL seconds after its SETEX
PermCacheExpire(service_name) ==
    /\ perm.cache[service_name] # Nil
    /\ perm' = [perm EXCEPT !.cache[service_name] = Nil]
    /\ UNCHANGED <<url_check, rl, forensic, lifespan, cb_check, hourly, sdk>>
    /\ UNCHANGED <<auditVars, proxyVars, hitlVars>>
    /\ UNCHANGED svcVars

(***************************************************************************)
(* alembic/versions/002_audit_immutability.py                              *)
(***************************************************************************)
\* the columns that prevent_audit_update compares between OLD and NEW
AUDIT_CORE_COLUMNS ==
    {"log_hash", "previous_hash", "agent_id", "sponsor_id", "action_type",
     "service_name", "permission_granted", "cost_usd", "timestamp",
     "prompt_snippet", "policy_evaluation", "response_code", "ip_address",
     "duration_ms"}

\* the columns of audit_logs: those of the entity and the two added by
\* the migration
AuditColumns ==
    AUDIT_CORE_COLUMNS \cup {"id", "model_used", "metadata",
                             "tsa_token", "exported_at"}

\* the columns that the statements of the model write
StatementColumns ==
    {"log_hash", "previous_hash", "agent_id", "timestamp",
     "model_used", "exported_at"}

\* trg_audit_no_update: the UPDATE raises when a compared column differs
prevent_audit_update(columns) == columns \cap AUDIT_CORE_COLUMNS # {}

\* trg_audit_no_delete: the DELETE raises for every row
prevent_audit_delete == TRUE

\* trg_exports_immutable: UPDATE and DELETE raise, INSERT passes
prevent_export_mutation(TG_OP) == TG_OP \in {"UPDATE", "DELETE"}

\* a value of the column that differs from every value the application
\* writes there
Forged(column, row) ==
    CASE column = "agent_id" -> "forged"
      [] column = "timestamp" -> 0
      [] OTHER -> Append(row[column], [agent_id |-> "forged", timestamp |-> 0])

\* the table after "UPDATE audit_logs SET <column> = ... WHERE id = i"
RowUpdate(logs, i, column) ==
    [logs EXCEPT ![i] = [@ EXCEPT ![column] = Forged(column, logs[i])]]

NoStatement == [table |-> "", op |-> "", id |-> 0, column |-> "",
                raised |-> FALSE]

NoTamper == [id |-> 0, column |-> ""]

(***************************************************************************)
(* services/forensic_export.py                                             *)
(***************************************************************************)
\* from_id / to_id is None
NoId == 0

\* the query parameters of POST /forensic/export explored
ExportFromIds == {NoId, 2}
ExportToIds == {NoId, 3}
ExportBatchSizes == {2, 10}

\* Step 1: the ids selected, ascending: from from_id on, up to to_id or,
\* without to_id, the rows not yet exported; at most batch_size of them
SelectBatch(logs, exported_at, from_id, to_id, batch_size) ==
    LET Selected(i) ==
            /\ from_id # NoId => i >= from_id
            /\ IF to_id # NoId THEN i <= to_id ELSE exported_at[i] = 0
        ids == SelectSeq([i \in 1..Len(logs) |-> i], Selected)
    IN  SubSeq(ids, 1, Min(batch_size, Len(ids)))

\* variant: every batch is reported intact
verify_batch_chain_valid(logs, ids) ==
    [valid |-> TRUE, checked |-> Len(ids), broken_at |-> {}]

\* _verify_batch_chain over the selected rows: the ids of the rows whose
\* previous_hash is not the log_hash of the row selected before them
verify_batch_chain(logs, ids) ==
    LET broken == {ids[k] : k \in {j \in 2..Len(ids) :
                      logs[ids[j]].previous_hash # logs[ids[j - 1]].log_hash}}
    IN  [valid |-> broken = {}, checked |-> Len(ids), broken_at |-> broken]

\* _serialize_batch: id, both hashes and the core columns of every row;
\* exported_at, tsa_token, model_used and metadata are not part of it
serialize_batch(logs, ids) == [k \in 1..Len(ids) |-> <<ids[k], logs[ids[k]]>>]

\* hashlib.sha3_256(canonical_bytes).hexdigest(): injective
sha3_256(canonical) == <<"sha3_256", canonical>>

\* variant: the timestamp is left out of the recomputation
row_log_data_no_timestamp(row) == [agent_id |-> row.agent_id, timestamp |-> 0]

\* deep_verify_chain, lines 242-250: the JSON that is hashed again, from
\* the columns of the row; str(uuid) and isoformat() give back the strings
\* that log wrote for a row that flush_buffer inserted
row_log_data(row) == [agent_id |-> row.agent_id, timestamp |-> row.timestamp]

\* deep_verify_chain(db, limit, offset)
deep_verify_chain(logs, limit, offset) ==
    LET first == offset + 1
        last == Min(offset + limit, Len(logs))
        chain_breaks ==
            {i \in first..last :
                IF i = first
                THEN offset = 0 /\ logs[i].previous_hash # GENESIS_HASH
                ELSE logs[i].previous_hash # logs[i - 1].log_hash}
        tampered ==
            {i \in first..last :
                hash_chain(row_log_data(logs[i]), logs[i].previous_hash)
                    # logs[i].log_hash}
    IN  [valid |-> tampered = {} /\ chain_breaks = {},
         checked |-> IF last >= first THEN last - first + 1 ELSE 0,
         tampered |-> tampered, chain_breaks |-> chain_breaks]

ExportResult(success, record_count, from_id, to_id, error) ==
    [success |-> success, record_count |-> record_count,
     from_id |-> from_id, to_id |-> to_id, error |-> error]

NoExport == ExportResult(FALSE, 0, 0, 0, "none")

ExportIdle == [pc |-> "idle", from_id |-> NoId, to_id |-> NoId,
               batch_size |-> 0, logs |-> << >>, canonical |-> << >>,
               result |-> NoExport]

ForensicNew ==
    [model_used |-> [i \in 1..MaxRows |-> "m"],
     exported_at |-> [i \in 1..MaxRows |-> 0],
     immutable_exports |-> << >>,
     uploads |-> {},
     export |-> ExportIdle,
     exports |-> 0,
     statements |-> 0,
     last |-> NoStatement,
     tampered |-> NoTamper]

\* an UPDATE of one column of one row of audit_logs reaches the table
SqlUpdate(i, column) ==
    /\ forensic.statements < MaxStatements
    /\ i \in 1..Len(audit_logs)
    /\ LET raised == prevent_audit_update({column})
           applied == ~raised
       IN  /\ forensic' =
                  [forensic EXCEPT
                      !.statements = @ + 1,
                      !.last = [table |-> "audit_logs", op |-> "UPDATE",
                                id |-> i, column |-> column,
                                raised |-> raised],
                      !.model_used[i] =
                          IF applied /\ column = "model_used"
                          THEN "forged" ELSE @,
                      !.exported_at[i] =
                          IF applied /\ column = "exported_at" THEN 1 ELSE @]
           /\ audit_logs' =
                  IF applied /\ column \in DOMAIN audit_logs[i]
                  THEN RowUpdate(audit_logs, i, column) ELSE audit_logs
    /\ UNCHANGED <<buffer, processing, flushLock, fl, clock>>
    /\ UNCHANGED <<proxyVars, hitlVars>>
    /\ UNCHANGED svcVars
    /\ UNCHANGED <<url_check, rl, perm, lifespan, cb_check, hourly, sdk>>

\* a DELETE of one row of audit_logs reaches the table
SqlDelete(i) ==
    /\ forensic.statements < MaxStatements
    /\ i \in 1..Len(audit_logs)
    /\ prevent_audit_delete
    /\ forensic' = [forensic EXCEPT
                       !.statements = @ + 1,
                       !.last = [table |-> "audit_logs", op |-> "DELETE",
                                 id |-> i, column |-> "", raised |-> TRUE]]
    /\ UNCHANGED auditVars
    /\ UNCHANGED <<proxyVars, hitlVars>>
    /\ UNCHANGED svcVars
    /\ UNCHANGED <<url_check, rl, perm, lifespan, cb_check, hourly, sdk>>

\* an UPDATE or DELETE of one row of immutable_exports reaches the table
LedgerStatement(TG_OP, k) ==
    /\ forensic.statements < MaxStatements
    /\ k \in 1..Len(forensic.immutable_exports)
    /\ prevent_export_mutation(TG_OP)
    /\ forensic' = [forensic EXCEPT
                       !.statements = @ + 1,
                       !.last = [table |-> "immutable_exports", op |-> TG_OP,
                                 id |-> k, column |-> "", raised |-> TRUE]]
    /\ UNCHANGED auditVars
    /\ UNCHANGED <<proxyVars, hitlVars>>
    /\ UNCHANGED svcVars
    /\ UNCHANGED <<url_check, rl, perm, lifespan, cb_check, hourly, sdk>>

\* one column of one persisted row is changed in storage, past the triggers
\* (test_tampered_data_detected changes the loaded row)
Tamper(i, column) ==
    /\ forensic.tampered = NoTamper
    /\ i \in 1..Len(audit_logs)
    /\ audit_logs' = RowUpdate(audit_logs, i, column)
    /\ forensic' = [forensic EXCEPT !.tampered = [id |-> i, column |-> column]]
    /\ UNCHANGED <<buffer, processing, flushLock, fl, clock>>
    /\ UNCHANGED <<proxyVars, hitlVars>>
    /\ UNCHANGED svcVars
    /\ UNCHANGED <<url_check, rl, perm, lifespan, cb_check, hourly, sdk>>

\* one flush_buffer run from its first line to its return with no other
\* run beside it and no failure: up to MAX_BATCH entries move to the
\* processing list, which is chained, committed and deleted
FlushRun ==
    /\ flushLock = None
    /\ \A f \in Flushers : fl[f].pc = "idle"
    /\ buffer # << >> \/ processing # << >>
    /\ LET moved == Min(Len(buffer), MAX_BATCH)
           entries == processing \o SubSeq(buffer, 1, moved)
           db_objects == BuildChain(entries, LastHash(audit_logs))
       IN  /\ CommitAccepted(audit_logs, db_objects)
           /\ Len(audit_logs) + Len(db_objects) <= MaxRows
           /\ audit_logs' = audit_logs \o db_objects
           /\ buffer' = SubSeq(buffer, moved + 1, Len(buffer))
           /\ processing' = << >>
    /\ UNCHANGED <<flushLock, fl, clock>>
    /\ UNCHANGED <<proxyVars, hitlVars>>
    /\ UNCHANGED svcVars
    /\ UNCHANGED extVars

\* export_batch, steps 1 and 2: no row selected returns success with no
\* record; a broken link among the selected rows returns the failure;
\* step 3 serializes the rows as the select loaded them
ExportSelect(from_id, to_id, batch_size) ==
    /\ forensic.export.pc = "idle"
    /\ forensic.exports < MaxExports
    /\ LET ids == SelectBatch(audit_logs, forensic.exported_at,
                              from_id, to_id, batch_size)
           call == [ExportIdle EXCEPT !.from_id = from_id, !.to_id = to_id,
                                      !.batch_size = batch_size]
           export ==
               IF ids = << >>
               THEN [call EXCEPT !.result = ExportResult(TRUE, 0, 0, 0, "")]
               ELSE IF ~verify_batch_chain(audit_logs, ids).valid
               THEN [call EXCEPT !.result =
                        ExportResult(FALSE, Len(ids), ids[1], ids[Len(ids)],
                                     "Chain integrity broken")]
               ELSE [call EXCEPT !.pc = "upload", !.logs = ids,
                                 !.canonical = serialize_batch(audit_logs, ids)]
       IN  forensic' = [forensic EXCEPT !.export = export,
                                        !.exports = @ + 1]
    /\ UNCHANGED auditVars
    /\ UNCHANGED <<proxyVars, hitlVars>>
    /\ UNCHANGED svcVars
    /\ UNCHANGED <<url_check, rl, perm, lifespan, cb_check, hourly, sdk>>

\* steps 3 to 6: serialize, hash, upload (no TSA: FORENSIC_TSA_URL is "")
ExportUpload ==
    /\ forensic.export.pc = "upload"
    /\ forensic' =
           [forensic EXCEPT
               !.uploads = @ \cup {forensic.export.canonical},
               !.export.pc = "commit"]
    /\ UNCHANGED auditVars
    /\ UNCHANGED <<proxyVars, hitlVars>>
    /\ UNCHANGED svcVars
    /\ UNCHANGED <<url_check, rl, perm, lifespan, cb_check, hourly, sdk>>

\* steps 7 and 8 and db.commit(), one transaction: exported_at of the rows
\* from the first to the last selected id, one row of immutable_exports;
\* the time written is that of the call, taken as the number of the call;
\* export_hash is unique, a batch exported before makes the INSERT raise
ExportCommit ==
    /\ forensic.export.pc = "commit"
    /\ LET ids == forensic.export.logs
           actual_from == ids[1]
           actual_to == ids[Len(ids)]
           batch_hash == sha3_256(forensic.export.canonical)
           accepted ==
               /\ ~prevent_audit_update({"exported_at"})
               /\ ~prevent_export_mutation("INSERT")
               /\ \A k \in 1..Len(forensic.immutable_exports) :
                      forensic.immutable_exports[k].export_hash # batch_hash
       IN  IF accepted
           THEN forensic' =
                    [forensic EXCEPT
                        !.exported_at =
                            [i \in 1..MaxRows |->
                                IF i >= actual_from /\ i <= actual_to
                                THEN forensic.exports ELSE @[i]],
                        !.immutable_exports =
                            Append(@, [export_hash |-> batch_hash,
                                       from_id |-> actual_from,
                                       to_id |-> actual_to,
                                       record_count |-> Len(ids)]),
                        !.export.pc = "idle",
                        !.export.canonical = << >>,
                        !.export.result =
                            ExportResult(TRUE, Len(ids), actual_from,
                                         actual_to, "")]
           ELSE forensic' =
                    [forensic EXCEPT
                        !.export.pc = "idle",
                        !.export.canonical = << >>,
                        !.export.result = ExportResult(FALSE, 0, 0, 0, "error")]
    /\ UNCHANGED auditVars
    /\ UNCHANGED <<proxyVars, hitlVars>>
    /\ UNCHANGED svcVars
    /\ UNCHANGED <<url_check, rl, perm, lifespan, cb_check, hourly, sdk>>

\* an exception after step 2 (the upload, a statement, the commit): caught
\* by "except Exception", nothing of the transaction is committed
ExportRaise ==
    /\ forensic.export.pc \in {"upload", "commit"}
    /\ forensic' = [forensic EXCEPT
                       !.export.pc = "idle",
                       !.export.canonical = << >>,
                       !.export.result = ExportResult(FALSE, 0, 0, 0, "error")]
    /\ UNCHANGED auditVars
    /\ UNCHANGED <<proxyVars, hitlVars>>
    /\ UNCHANGED svcVars
    /\ UNCHANGED <<url_check, rl, perm, lifespan, cb_check, hourly, sdk>>

(***************************************************************************)
(* main.py: lifespan; services/scheduler.py; services/audit_service.py     *)
(* with the audit queue taken by length                                    *)
(***************************************************************************)
\* the flush_buffer runs of one worker process: the runs of the scheduler's
\* _periodic_flush task, and the run of the shutdown
LifespanRuns == {"task", "final"}

\* the log calls of one step: one call, or MAX_BATCH calls one after the
\* other (each call is one RPUSH; the calls of a step are taken together)
LogBursts == {1, MAX_BATCH}

\* a flush_buffer run that has not begun; entries is len(raw_entries),
\* error is set when the run came through its except branch
LifespanFlushIdle ==
    [pc |-> "idle", buf_len |-> 0, proc_len |-> 0, entries |-> 0,
     error |-> FALSE, result |-> 0]

\* the worker after start_scheduler, at the yield of lifespan.  buffer and
\* processing are the lengths of the two Redis lists, rows the number of
\* rows of audit_logs, committed the number of entries of the processing
\* list that some commit has already inserted, duplicates the number of
\* rows that repeat an entry, logged the number of log calls, bursts
\* the number of steps they were made in.
LifespanNew ==
    [pc |-> "yield", running |-> TRUE, cancelled |-> FALSE,
     buffer |-> 0, processing |-> 0, committed |-> 0,
     rows |-> 0, duplicates |-> 0, logged |-> 0, bursts |-> 0,
     lock |-> "none",
     run |-> [r \in LifespanRuns |-> LifespanFlushIdle]]

lifespanOnly ==
    <<auditVars, proxyVars, hitlVars, svcVars, url_check, rl, perm, forensic,
      cb_check, hourly, sdk>>

\* how a flush_buffer run ends: the task goes back to its sleep, the
\* shutdown goes on to close the clients
LifespanFlushReturn(r, result, error) ==
    IF r = "task"
    THEN LifespanFlushIdle
    ELSE [LifespanFlushIdle EXCEPT !.pc = "done", !.result = result,
                              !.error = error]

LifespanAfter(r) == IF r = "final" THEN "close" ELSE lifespan.pc

\* AuditService.log while the application serves requests
LifespanLog(n) ==
    /\ lifespan.pc = "yield"
    /\ lifespan.bursts < MaxBursts
    /\ lifespan' = [lifespan EXCEPT !.buffer = @ + n, !.logged = @ + n,
                                    !.bursts = @ + 1]
    /\ UNCHANGED lifespanOnly

\* flush_buffer up to its first LLEN
LifespanFlushBegin(r) ==
    /\ lifespan.run[r].pc = "idle"
    /\ lifespan' = [lifespan EXCEPT !.run[r].pc = "llen",
                                    !.run[r].buf_len = lifespan.buffer]
    /\ UNCHANGED lifespanOnly

\* _periodic_flush: the sleep is over and _running is still set
PeriodicFlushWake ==
    /\ lifespan.running
    /\ ~lifespan.cancelled
    /\ LifespanFlushBegin("task")

\* stop_scheduler, and lifespan up to the call of flush_buffer: the task is
\* asked to cancel and is not awaited
StopScheduler ==
    /\ lifespan.pc = "yield"
    /\ lifespan' = [lifespan EXCEPT !.pc = "flush", !.running = FALSE,
                                    !.cancelled = TRUE]
    /\ UNCHANGED lifespanOnly

\* the task is resumed with CancelledError at the await it is suspended
\* in: distributed_lock's finally releases a held lock, no except branch
\* of flush_buffer takes the error, and _periodic_flush breaks
TaskCancelled ==
    /\ lifespan.cancelled
    /\ lifespan.run["task"].pc # "cancelled"
    /\ lifespan' = [lifespan EXCEPT
           !.run["task"] = [LifespanFlushIdle EXCEPT !.pc = "cancelled"],
           !.lock = IF @ = "task" THEN "none" ELSE @]
    /\ UNCHANGED lifespanOnly

\* the shutdown's flush_buffer
ShutdownFlush ==
    /\ lifespan.pc = "flush"
    /\ LifespanFlushBegin("final")

\* a run of the task takes no step once the cancellation is requested
TaskMayStep(r) == r = "task" => ~lifespan.cancelled

\* the second LLEN and the early return
LifespanFlushLlen(r) ==
    /\ lifespan.run[r].pc = "llen"
    /\ TaskMayStep(r)
    /\ IF lifespan.run[r].buf_len = 0 /\ lifespan.processing = 0
       THEN lifespan' = [lifespan EXCEPT !.run[r] = LifespanFlushReturn(r, 0, FALSE),
                                         !.pc = LifespanAfter(r)]
       ELSE lifespan' = [lifespan EXCEPT !.run[r].pc = "lock",
                                         !.run[r].proc_len = lifespan.processing]
    /\ UNCHANGED lifespanOnly

\* distributed_lock with retry_count = 1: one SET NX; RuntimeError when the
\* key is held, which flush_buffer's except branch turns into return 0
LifespanFlushAcquire(r) ==
    /\ lifespan.run[r].pc = "lock"
    /\ TaskMayStep(r)
    /\ IF lifespan.lock = "none"
       THEN lifespan' = [lifespan EXCEPT !.lock = r, !.run[r].pc = "move"]
       ELSE lifespan' = [lifespan EXCEPT !.run[r] = LifespanFlushReturn(r, 0, TRUE),
                                         !.pc = LifespanAfter(r)]
    /\ UNCHANGED lifespanOnly

\* step 1: min(buf_len, MAX_BATCH) LMOVEs, ended early by an empty buffer
LifespanFlushMove(r) ==
    /\ lifespan.run[r].pc = "move"
    /\ TaskMayStep(r)
    /\ LET moved == IF lifespan.run[r].buf_len > 0
                    THEN Min(Min(lifespan.run[r].buf_len, MAX_BATCH),
                             lifespan.buffer)
                    ELSE 0
       IN  lifespan' = [lifespan EXCEPT !.buffer = @ - moved,
                                        !.processing = @ + moved,
                                        !.run[r].pc = "lrange"]
    /\ UNCHANGED lifespanOnly

\* step 2: LRANGE of the whole processing list; steps 3 and 4 build the
\* rows without a change of state
LifespanFlushLrange(r) ==
    /\ lifespan.run[r].pc = "lrange"
    /\ TaskMayStep(r)
    /\ IF lifespan.processing = 0
       THEN lifespan' = [lifespan EXCEPT !.run[r] = LifespanFlushReturn(r, 0, FALSE),
                                         !.lock = "none",
                                         !.pc = LifespanAfter(r)]
       ELSE lifespan' = [lifespan EXCEPT !.run[r].pc = "commit",
                                         !.run[r].entries = lifespan.processing]
    /\ UNCHANGED lifespanOnly

\* db.commit() inserts one row per entry read
LifespanFlushCommit(r) ==
    /\ lifespan.run[r].pc = "commit"
    /\ TaskMayStep(r)
    /\ lifespan' = [lifespan EXCEPT
           !.rows = @ + lifespan.run[r].entries,
           !.duplicates = @ + lifespan.committed,
           !.committed = lifespan.run[r].entries,
           !.run[r].pc = "delete"]
    /\ UNCHANGED lifespanOnly

\* db.commit() raises: the except branch logs and returns 0
LifespanFlushRaise(r) ==
    /\ lifespan.run[r].pc = "commit"
    /\ TaskMayStep(r)
    /\ lifespan' = [lifespan EXCEPT !.run[r] = LifespanFlushReturn(r, 0, TRUE),
                                    !.lock = "none",
                                    !.pc = LifespanAfter(r)]
    /\ UNCHANGED lifespanOnly

\* step 5: DEL of the processing list, the release of the lock, and
\* return len(db_objects)
LifespanFlushDelete(r) ==
    /\ lifespan.run[r].pc = "delete"
    /\ TaskMayStep(r)
    /\ lifespan' = [lifespan EXCEPT
           !.processing = 0,
           !.committed = 0,
           !.lock = "none",
           !.run[r] = LifespanFlushReturn(r, lifespan.run[r].entries, FALSE),
           !.pc = LifespanAfter(r)]
    /\ UNCHANGED lifespanOnly

NextShutdown ==
    \/ \E n \in LogBursts : LifespanLog(n)
    \/ PeriodicFlushWake
    \/ StopScheduler
    \/ TaskCancelled
    \/ ShutdownFlush
    \/ \E r \in LifespanRuns :
          \/ LifespanFlushLlen(r)
          \/ LifespanFlushAcquire(r)
          \/ LifespanFlushMove(r)
          \/ LifespanFlushLrange(r)
          \/ LifespanFlushCommit(r)
          \/ LifespanFlushRaise(r)
          \/ LifespanFlushDelete(r)

(***************************************************************************)
(* services/circuit_breaker.py: check_and_trip (amounts in cents)          *)
(***************************************************************************)
\* settings.CIRCUIT_BREAKER_THRESHOLD_PCT
CIRCUIT_BREAKER_THRESHOLD_PCT == 300

\* what redis.get(cb:baseline:<agent_id>) returns: Nil for no key, else the
\* stored average, which update_baseline writes as it is given
Baselines == {Nil} \cup {<<b>> : b \in 0..MaxSpend}

\* the calls: the sum of the entries of the current window, the sum of the
\* entries of the previous window, the stored baseline, and the amount
CheckInputs ==
    {[current |-> c, previous |-> p, baseline |-> b, amount |-> a,
      done |-> FALSE, tripped |-> FALSE] :
        c \in 0..MaxSpend, p \in 0..MaxSpend, b \in Baselines,
        a \in 0..MaxSpend}

\* no check_and_trip call
NoCheck ==
    [current |-> 0, previous |-> 0, baseline |-> Nil, amount |-> 0,
     done |-> FALSE, tripped |-> FALSE]

\* variant: any stored baseline counts, also a baseline of 0
check_and_trip_any_baseline(current, previous_total, baseline, amount) ==
    LET current_total == current + amount
    IN  IF /\ previous_total > 0
           /\ (current_total - previous_total) * 100
                  >= CIRCUIT_BREAKER_THRESHOLD_PCT * previous_total
        THEN TRUE
        ELSE IF baseline # Nil
        THEN current_total > baseline[1] * 4
        ELSE FALSE

\* check_and_trip: whether the call trips.  increase_pct >= threshold_pct
\* with increase_pct = (current_total - previous_total) / previous_total
\* * 100 is compared after multiplying by previous_total, which is > 0.
check_and_trip(current, previous_total, baseline, amount) ==
    LET current_total == current + amount
    IN  IF /\ previous_total > 0
           /\ (current_total - previous_total) * 100
                  >= CIRCUIT_BREAKER_THRESHOLD_PCT * previous_total
        THEN TRUE
        ELSE IF baseline # Nil
        THEN baseline[1] > 0 /\ current_total > baseline[1] * 4
        ELSE FALSE

\* a check_and_trip call for agent a1; when it trips, _trigger_panic:
\* panic_agent, revoke_all_for_agent, freeze_wallet, and the trip event
CheckAndTrip ==
    /\ ~cb_check.done
    /\ LET tripped == check_and_trip(cb_check.current, cb_check.previous,
                                     cb_check.baseline, cb_check.amount)
       IN  /\ cb_check' = [cb_check EXCEPT !.done = TRUE, !.tripped = tripped]
           /\ IF tripped
              THEN /\ agent_status' = "panic"
                   /\ jit_store' = revoke_all_for_agent(jit_store, "a1")
                   /\ wallet' = freeze_wallet(wallet)
                   /\ cb_trips' = push_trip(cb_trips, clock)
              ELSE UNCHANGED <<agent_status, jit_store, wallet, cb_trips>>
    /\ UNCHANGED <<runs, idem_cache, idem_lock, idem_lapsed>>
    /\ UNCHANGED <<wallet_transactions, reserve, vault, trust_score, adjusters>>
    /\ UNCHANGED <<auditVars, hitlVars>>
    /\ UNCHANGED <<url_check, rl, perm, forensic, lifespan, hourly, sdk>>

(***************************************************************************)
(* utils/counters.py and stages 8 to 16 of execute_proxy: the hourly       *)
(* request counter of one (agent, service)                                 *)
(***************************************************************************)
\* the concurrent execute_proxy runs followed for the counter
HourlyRuns == {"h1", "h2", "h3"}

\* the clock hours (the %Y%m%d%H part of the key)
Hours == 0..MaxHours

HourlyRunIdle == [pc |-> "idle", current_reqs |-> 0]

\* the counter keys absent, no run executed, the permission's
\* max_requests_per_hour
HourlyOf(max_requests_per_hour) ==
    [hour |-> 0,
     counter |-> [h \in Hours |-> 0],
     executed |-> [h \in Hours |-> 0],
     max_requests_per_hour |-> max_requests_per_hour,
     runs |-> [r \in HourlyRuns |-> HourlyRunIdle]]

HourlyNew == HourlyOf(1)

\* get_hourly_count: the value of this hour's key, 0 without the key
get_hourly_count(h) == h.counter[h.hour]

\* stage 8: the run reads the counter; the policy engine denies when
\* current_hour_requests >= max_requests_per_hour and the run returns
HourlyPolicy(r) ==
    /\ hourly.runs[r].pc = "idle"
    /\ LET current_reqs == get_hourly_count(hourly)
           allowed == current_reqs < hourly.max_requests_per_hour
       IN  hourly' = [hourly EXCEPT
                         !.runs[r].current_reqs = current_reqs,
                         !.runs[r].pc = IF allowed THEN "execute" ELSE "denied"]
    /\ UNCHANGED <<auditVars, proxyVars, hitlVars, svcVars>>
    /\ UNCHANGED <<url_check, rl, perm, forensic, lifespan, cb_check, sdk>>

\* stage 11: the request goes out to the service
HourlyExecute(r) ==
    /\ hourly.runs[r].pc = "execute"
    /\ hourly' = [hourly EXCEPT !.executed[hourly.hour] = @ + 1,
                                !.runs[r].pc = "counter"]
    /\ UNCHANGED <<auditVars, proxyVars, hitlVars, svcVars>>
    /\ UNCHANGED <<url_check, rl, perm, forensic, lifespan, cb_check, sdk>>

\* stage 16, increment_hourly_counter: INCR on the key of the hour in which
\* the increment runs
HourlyIncrement(r) ==
    /\ hourly.runs[r].pc = "counter"
    /\ hourly' = [hourly EXCEPT !.counter[hourly.hour] = @ + 1,
                                !.runs[r].pc = "done"]
    /\ UNCHANGED <<auditVars, proxyVars, hitlVars, svcVars>>
    /\ UNCHANGED <<url_check, rl, perm, forensic, lifespan, cb_check, sdk>>

\* an exception in stages 9 to 15 (HITL, JIT, the request, the charge, the
\* trust update): the run ends without reaching stage 16
HourlyRaise(r) ==
    /\ hourly.runs[r].pc \in {"execute", "counter"}
    /\ hourly' = [hourly EXCEPT !.runs[r].pc = "failed"]
    /\ UNCHANGED <<auditVars, proxyVars, hitlVars, svcVars>>
    /\ UNCHANGED <<url_check, rl, perm, forensic, lifespan, cb_check, sdk>>

\* the clock passes into the next hour
HourPasses ==
    /\ hourly.hour < MaxHours
    /\ hourly' = [hourly EXCEPT !.hour = @ + 1]
    /\ UNCHANGED <<auditVars, proxyVars, hitlVars, svcVars>>
    /\ UNCHANGED <<url_check, rl, perm, forensic, lifespan, cb_check, sdk>>

(***************************************************************************)
(* sdk/aegis_sdk.py: _CircuitBreaker and AegisClient.execute               *)
(***************************************************************************)
\* what one attempt of execute meets: a response that is returned (2xx and
\* any status that is neither of the next two), a non-retryable client
\* error (401, 403, 404, 409, 422), a retryable status (429, 500, 502, 503,
\* 504), a connection error or timeout, and any other exception of the
\* HTTP client (httpx.ReadError, httpx.RemoteProtocolError, ...)
Attempts == {"success", "client_error", "retryable", "connect_error",
             "other_exception"}

\* the client explored: AegisClient(circuit_breaker_threshold =
\* FailureThreshold, circuit_breaker_timeout = ResetTimeout,
\* retry = RetryConfig(max_retries = MaxRetries)), its breaker as
\* constructed, no call in progress
SdkNew ==
    [failure_threshold |-> FailureThreshold,
     reset_timeout_seconds |-> ResetTimeout,
     failure_count |-> 0,
     state |-> "closed",
     opened_at |-> 0,
     monotonic |-> 0,
     pc |-> "idle",
     attempt |-> 0,
     last |-> "none",
     probes |-> 0]

\* _CircuitBreaker.record_success
record_success(cb) == [cb EXCEPT !.failure_count = 0, !.state = "closed"]

\* _CircuitBreaker.record_failure
record_failure(cb) ==
    LET count == cb.failure_count + 1
    IN  IF count >= cb.failure_threshold
        THEN [cb EXCEPT !.failure_count = count, !.state = "open",
                        !.opened_at = cb.monotonic]
        ELSE [cb EXCEPT !.failure_count = count]

\* _CircuitBreaker.allow_request: the answer and the breaker afterwards
allow_request(cb) ==
    IF cb.state = "closed"
    THEN [allowed |-> TRUE, cb |-> cb]
    ELSE IF cb.state = "open"
    THEN IF cb.monotonic - cb.opened_at >= cb.reset_timeout_seconds
         THEN [allowed |-> TRUE, cb |-> [cb EXCEPT !.state = "half_open"]]
         ELSE [allowed |-> FALSE, cb |-> cb]
    ELSE [allowed |-> TRUE, cb |-> cb]

\* probes counts the execute calls let through since the breaker last
\* became half_open: the call that finds it open after the timeout is the
\* first, each call that finds it half_open is one more
CountProbes(before, cb) ==
    IF cb.state = "half_open"
    THEN [cb EXCEPT !.probes = IF before.state = "open" THEN 1 ELSE @ + 1]
    ELSE [cb EXCEPT !.probes = 0]

\* execute up to its first attempt: AegisCircuitOpenError when the breaker
\* does not allow the request
SdkExecute ==
    /\ sdk.pc = "idle"
    /\ sdk.probes < MaxProbes
    /\ LET answer == allow_request(sdk)
       IN  sdk' = IF answer.allowed
                  THEN [CountProbes(sdk, answer.cb) EXCEPT !.pc = "post",
                                                           !.attempt = 0,
                                                           !.last = "none"]
                  ELSE [answer.cb EXCEPT !.last = "circuit_open"]
    /\ UNCHANGED <<auditVars, proxyVars, hitlVars, svcVars>>
    /\ UNCHANGED <<url_check, rl, perm, forensic, lifespan, cb_check, hourly>>

\* one attempt of the retry loop: client.post and what follows it
SdkAttempt(outcome) ==
    /\ sdk.pc = "post"
    /\ outcome \in {"retryable", "connect_error"}
           => sdk.failure_count < MaxFailures
    /\ sdk' =
           IF outcome \in {"success", "client_error"}
           THEN [record_success(sdk) EXCEPT !.pc = "idle", !.attempt = 0,
                                            !.last = "returned",
                                            !.probes = 0]
           ELSE IF outcome \in {"retryable", "connect_error"}
           THEN IF sdk.attempt < MaxRetries
                THEN [record_failure(sdk) EXCEPT !.attempt = @ + 1]
                ELSE [record_failure(sdk) EXCEPT !.pc = "idle", !.attempt = 0,
                                                 !.last = "raised"]
           ELSE [sdk EXCEPT !.pc = "idle", !.attempt = 0, !.last = "raised"]
    /\ UNCHANGED <<auditVars, proxyVars, hitlVars, svcVars>>
    /\ UNCHANGED <<url_check, rl, perm, forensic, lifespan, cb_check, hourly>>

\* time.monotonic() advances (between calls, during a request, and in the
\* time.sleep between two attempts)
SdkTimePasses ==
    /\ sdk.monotonic < MaxMonotonic
    /\ sdk' = [sdk EXCEPT !.monotonic = @ + 1]
    /\ UNCHANGED <<auditVars, proxyVars, hitlVars, svcVars>>
    /\ UNCHANGED <<url_check, rl, perm, forensic, lifespan, cb_check, hourly>>

(***************************************************************************)
(* api/proxy.py: execute_proxy                                             *)
(***************************************************************************)
\* the execute_proxy runs explored: two requests in flight at once
RunIds == {1, 2}

IdemKeys == {"k"}

Costs == {0, 1}

\* the stages that act on the outside world or on the agent's accounts
ActionStages == {"jit", "outbound", "charge", "behavior", "reward", "counter"}

\* the stages in the order of the source; "done" is the end of the handler
StageOrder == << "new", "idem_lock", "ssrf", "identity", "firewall", "anomaly",
                 "permission", "wallet", "circuit", "trip_revoke",
                 "trip_freeze", "trip_event", "tripped", "policy", "hitl",
                 "jit", "resolve", "execute", "revoke", "charge", "behavior",
                 "trust", "counter", "audit", "respond", "finally", "done" >>

StageIndex(pc) == CHOOSE i \in 1..Len(StageOrder) : StageOrder[i] = pc

\* auth is headers["Authorization"] ("" when not set); jit is the history of
\* the token the run minted (none, live, revoked, expired); trip_tokens are
\* the tokens that resolved when the run's circuit breaker tripped
RunNew == [pc |-> "new", idem_key |-> "", agent_id |-> "a1", cost |-> 0,
           resp |-> NoResponse, exc |-> None, lock_value |-> 0, cached |-> FALSE,
           eph_token |-> FALSE, response_code |-> 0, response_body |-> "",
           done |-> {},
           after |-> {}, auth |-> "", jit |-> "none", trip_tokens |-> {},
           opa |-> "none"]

\* the handler has ended: its request and locals are gone, what remains is
\* the record of what it returned or raised and of what it did
Ended(run) == [run EXCEPT !.pc = "done", !.agent_id = RunNew.agent_id,
                          !.cost = 0, !.eph_token = FALSE, !.response_code = 0,
                          !.response_body = "",
                          !.auth = "", !.trip_tokens = {}, !.opa = "none"]

\* ProxyResponse(request_id=rid, status=..., message=...,
\* response_body=...)
ProxyResponse(rid, status, message, response_body) ==
    [request_id |-> rid, status |-> status, message |-> message,
     response_body |-> response_body]

\* variant: the replayed response carries the new run's request_id
CachedResponseNewId(cached, rid) == [cached EXCEPT !.request_id = rid]

\* "return ProxyResponse(**cached)" on a cache hit
CachedResponse(cached, rid) == cached

Finished == {q \in RunIds : runs[q].pc = "done"}

\* rid = uuid4(); idem_key, data; 0. Idempotency: check_idempotency
ProxyBegin(r, idem_key, agent_id, cost) ==
    /\ runs[r].pc = "new"
    /\ \A q \in RunIds : q < r => runs[q].pc # "new"
    /\ LET cached == IF idem_key # "" THEN check_idempotency(idem_cache, idem_key)
                     ELSE NoResponse
           req == [RunNew EXCEPT !.idem_key = idem_key, !.agent_id = agent_id,
                                 !.cost = cost, !.after = Finished]
       IN  runs' = [runs EXCEPT ![r] =
               IF cached # NoResponse
               THEN Ended([req EXCEPT !.cached = TRUE,
                                      !.resp = CachedResponse(cached, r)])
               ELSE [req EXCEPT !.pc = IF idem_key # "" THEN "idem_lock"
                                       ELSE "ssrf"]]
    /\ UNCHANGED <<idem_cache, idem_lock, idem_lapsed, wallet, agent_status>>
    /\ UNCHANGED <<auditVars, hitlVars>>
    /\ UNCHANGED svcVars
    /\ UNCHANGED extVars

\* lock_idempotency; HTTPException 409 when the key is held (raised before
\* the try block, so the finally block does not run)
ProxyLock(r) ==
    /\ runs[r].pc = "idem_lock"
    /\ idem_lock' = lock_idempotency(idem_lock, runs[r].idem_key, r)
    /\ runs' = [runs EXCEPT ![r] =
           IF idem_lock'[runs[r].idem_key] = <<r>>
           THEN [@ EXCEPT !.pc = "ssrf", !.lock_value = r]
           ELSE Ended([@ EXCEPT !.exc = "HTTP409"])]
    /\ UNCHANGED <<idem_cache, idem_lapsed, wallet, agent_status>>
    /\ UNCHANGED <<auditVars, hitlVars>>
    /\ UNCHANGED svcVars
    /\ UNCHANGED extVars

\* a denial: [penalize trust,] AuditService.log(..., False, ...), return
\* _block(rid, code, msg)
Blocked(run, rid, penalized) ==
    [run EXCEPT !.pc = "finally",
                !.resp = ProxyResponse(rid, "blocked", "blocked", ""),
                !.done = @ \cup {"audit"} \cup
                             (IF penalized THEN {"penalty"} ELSE {})]

PushAudit(agent_id, permission_granted, request_id) ==
    /\ buffer' = Append(buffer, AuditEntry(agent_id, clock + 1,
                                           permission_granted, request_id))
    /\ clock' = clock + 1

\* variant: a failing guard records the denial and falls through
GuardStageFallsThrough(r, stage, next, penalized) ==
    /\ runs[r].pc = stage
    /\ \E ok \in BOOLEAN :
           IF ok
           THEN /\ runs' = [runs EXCEPT ![r].pc = next]
                /\ UNCHANGED <<buffer, clock>>
           ELSE /\ runs' = [runs EXCEPT ![r] = [Blocked(@, r, penalized)
                                                   EXCEPT !.pc = next]]
                /\ PushAudit(runs[r].agent_id, FALSE, r)
    /\ UNCHANGED <<idem_cache, idem_lock, idem_lapsed, wallet, agent_status>>
    /\ UNCHANGED <<flushVars, hitlVars>>
    /\ UNCHANGED svcVars
    /\ UNCHANGED extVars

\* a guard stage whose verdict comes from outside the modelled state:
\* on failure audit and return blocked, else go on with the next stage
GuardStage(r, stage, next, penalized) ==
    /\ runs[r].pc = stage
    /\ \E ok \in BOOLEAN :
           IF ok
           THEN /\ runs' = [runs EXCEPT ![r].pc = next]
                /\ UNCHANGED <<buffer, clock>>
           ELSE /\ runs' = [runs EXCEPT ![r] = Blocked(@, r, penalized)]
                /\ PushAudit(runs[r].agent_id, FALSE, r)
    /\ UNCHANGED <<idem_cache, idem_lock, idem_lapsed, wallet, agent_status>>
    /\ UNCHANGED <<flushVars, hitlVars>>
    /\ UNCHANGED svcVars
    /\ UNCHANGED extVars

\* 1. SSRF: validate_url_async(data.target_url)
ProxySsrf(r) == GuardStage(r, "ssrf", "identity", FALSE)

\* 2. Identity: get_agent_for_sponsor; 404 when absent; blocked when the
\* status is not active
ProxyIdentity(r) ==
    /\ runs[r].pc = "identity"
    /\ IF runs[r].agent_id \notin Agents
       THEN /\ runs' = [runs EXCEPT ![r].pc = "finally", ![r].exc = "HTTP404"]
            /\ UNCHANGED <<buffer, clock>>
       ELSE IF agent_status # "active"
       THEN /\ runs' = [runs EXCEPT ![r] = Blocked(@, r, FALSE)]
            /\ PushAudit(runs[r].agent_id, FALSE, r)
       ELSE /\ runs' = [runs EXCEPT ![r].pc = "firewall"]
            /\ UNCHANGED <<buffer, clock>>
    /\ UNCHANGED <<idem_cache, idem_lock, idem_lapsed, wallet, agent_status>>
    /\ UNCHANGED <<flushVars, hitlVars>>
    /\ UNCHANGED svcVars
    /\ UNCHANGED extVars

\* 3. Prompt firewall (penalize_injection on an unsafe prompt)
ProxyFirewall(r) == GuardStage(r, "firewall", "anomaly", TRUE)

\* 4. Anomaly detection (penalize_anomaly on an anomaly)
ProxyAnomaly(r) == GuardStage(r, "anomaly", "permission", TRUE)

\* 5. Permission, cached or read from agent_permissions
ProxyPermission(r) == GuardStage(r, "permission", "wallet", FALSE)

\* 6. Wallet: WalletService.can_spend(db, agent.id, estimated_cost_usd)
ProxyWallet(r) ==
    /\ runs[r].pc = "wallet"
    /\ IF can_spend(wallet, runs[r].cost)
       THEN /\ runs' = [runs EXCEPT ![r].pc = "circuit"]
            /\ UNCHANGED <<buffer, clock>>
       ELSE /\ runs' = [runs EXCEPT ![r] = Blocked(@, r, FALSE)]
            /\ PushAudit(runs[r].agent_id, FALSE, r)
    /\ UNCHANGED <<idem_cache, idem_lock, idem_lapsed, wallet, agent_status>>
    /\ UNCHANGED <<flushVars, hitlVars>>
    /\ UNCHANGED svcVars
    /\ UNCHANGED extVars

\* the history of the tokens that a revocation or an expiry removed
MarkTokens(rs, tokens, state) ==
    [q \in RunIds |->
        IF q \in tokens /\ rs[q].jit = "live"
        THEN [rs[q] EXCEPT !.jit = state] ELSE rs[q]]

\* 7. Circuit breaker: check_and_trip; when it trips, _trigger_panic runs
\* its four steps.  The first is IdentityService.panic_agent.
ProxyCircuit(r) ==
    /\ runs[r].pc = "circuit"
    /\ \E tripped \in BOOLEAN :
           IF tripped
           THEN /\ agent_status' = "panic"
                /\ runs' = [runs EXCEPT ![r].pc = "trip_revoke",
                                        ![r].trip_tokens =
                                            LiveTokens(jit_store, runs[r].agent_id)]
           ELSE /\ runs' = [runs EXCEPT ![r].pc = "policy"]
                /\ UNCHANGED agent_status
    /\ UNCHANGED <<idem_cache, idem_lock, idem_lapsed, wallet>>
    /\ UNCHANGED <<auditVars, hitlVars>>
    /\ UNCHANGED svcVars
    /\ UNCHANGED extVars

\* _trigger_panic: jit_broker.revoke_all_for_agent
ProxyTripRevoke(r) ==
    /\ runs[r].pc = "trip_revoke"
    /\ jit_store' = revoke_all_for_agent(jit_store, runs[r].agent_id)
    /\ runs' = [MarkTokens(runs, LiveTokens(jit_store, runs[r].agent_id),
                           "revoked") EXCEPT ![r].pc = "trip_freeze"]
    /\ UNCHANGED <<idem_cache, idem_lock, idem_lapsed, wallet, agent_status>>
    /\ UNCHANGED <<auditVars, hitlVars>>
    /\ UNCHANGED <<wallet_transactions, reserve, vault, cb_trips, trust_score,
                   adjusters>>
    /\ UNCHANGED extVars

\* _trigger_panic: WalletService.freeze_wallet
ProxyTripFreeze(r) ==
    /\ runs[r].pc = "trip_freeze"
    /\ wallet' = freeze_wallet(wallet)
    /\ runs' = [runs EXCEPT ![r].pc = "trip_event"]
    /\ UNCHANGED <<idem_cache, idem_lock, idem_lapsed, agent_status>>
    /\ UNCHANGED <<auditVars, hitlVars>>
    /\ UNCHANGED svcVars
    /\ UNCHANGED extVars

\* _trigger_panic: lpush and ltrim of the trip event; check_and_trip then
\* returns True
ProxyTripEvent(r) ==
    /\ runs[r].pc = "trip_event"
    /\ cb_trips' = push_trip(cb_trips, clock)
    /\ runs' = [runs EXCEPT ![r].pc = "tripped"]
    /\ UNCHANGED <<idem_cache, idem_lock, idem_lapsed, wallet, agent_status>>
    /\ UNCHANGED <<auditVars, hitlVars>>
    /\ UNCHANGED <<wallet_transactions, reserve, jit_store, vault, trust_score,
                   adjusters>>
    /\ UNCHANGED extVars

\* "if tripped": penalize_circuit_break, notify, audit, blocked
ProxyTripped(r) ==
    /\ runs[r].pc = "tripped"
    /\ runs' = [runs EXCEPT ![r] = Blocked(@, r, TRUE)]
    /\ PushAudit(runs[r].agent_id, FALSE, r)
    /\ UNCHANGED <<idem_cache, idem_lock, idem_lapsed, wallet, agent_status>>
    /\ UNCHANGED <<flushVars, hitlVars>>
    /\ UNCHANGED svcVars
    /\ UNCHANGED extVars

\* what the POST to the policy engine can bring: an exception of the
\* client (network error, timeout), a status that raise_for_status rejects,
\* a body that is not the JSON object expected, or a decision
OpaFailures == {"network", "timeout", "status", "unparsable"}

OpaReplies ==
    {[kind |-> k, allow |-> FALSE, requires_hitl |-> FALSE] : k \in OpaFailures}
    \cup {[kind |-> "decision", allow |-> a, requires_hitl |-> h] :
              a, h \in BOOLEAN}

\* variant: a failure of the policy engine lets the request pass
evaluate_fail_open(reply) ==
    IF reply.kind \in OpaFailures
    THEN [allowed |-> TRUE, requires_hitl |-> FALSE,
          deny_reasons |-> "Policy engine error"]
    ELSE [allowed |-> reply.allow, requires_hitl |-> reply.requires_hitl,
          deny_reasons |-> ""]

\* PolicyEngine.evaluate: the decision of the engine, or on any exception
\* the denial of the except branch
evaluate(reply) ==
    IF reply.kind \in OpaFailures
    THEN [allowed |-> FALSE, requires_hitl |-> FALSE,
          deny_reasons |-> "Policy engine error"]
    ELSE [allowed |-> reply.allow, requires_hitl |-> reply.requires_hitl,
          deny_reasons |-> ""]

\* 8. OPA policy: policy_engine.evaluate; denied and no HITL: penalize,
\* audit, blocked
ProxyPolicy(r) ==
    /\ runs[r].pc = "policy"
    /\ \E reply \in OpaReplies :
           LET policy_result == evaluate(reply)
               opa == IF reply.kind \in OpaFailures THEN "failed" ELSE "decided"
           IN  IF ~policy_result.allowed /\ ~policy_result.requires_hitl
               THEN /\ runs' = [runs EXCEPT ![r] =
                                    [Blocked(@, r, TRUE) EXCEPT !.opa = opa]]
                    /\ PushAudit(runs[r].agent_id, FALSE, r)
               ELSE /\ runs' = [runs EXCEPT ![r].pc =
                                    IF policy_result.requires_hitl THEN "hitl"
                                    ELSE "jit",
                                            ![r].opa = opa]
                    /\ UNCHANGED <<buffer, clock>>
    /\ UNCHANGED <<idem_cache, idem_lock, idem_lapsed, wallet, agent_status>>
    /\ UNCHANGED <<flushVars, hitlVars>>
    /\ UNCHANGED svcVars
    /\ UNCHANGED extVars

\* 9. HITL: create_request, notify, store_idempotency, return hitl_pending
ProxyHitl(r) ==
    /\ runs[r].pc = "hitl"
    /\ LET resp == ProxyResponse(r, "hitl_pending", "HITL", "")
       IN  /\ runs' = [runs EXCEPT ![r].pc = "finally", ![r].resp = resp,
                                   ![r].done = @ \cup {"hitl"} \cup
                                       (IF runs[r].idem_key # "" THEN {"store"}
                                        ELSE {})]
           /\ idem_cache' = IF runs[r].idem_key # ""
                            THEN store_idempotency(idem_cache, runs[r].idem_key, resp)
                            ELSE idem_cache
    /\ hitl_requests' = Append(hitl_requests, NewRequest(NowMinutes))
    /\ UNCHANGED <<idem_lock, idem_lapsed, wallet, agent_status>>
    /\ UNCHANGED <<auditVars, deciders, hitl_now>>
    /\ UNCHANGED svcVars
    /\ UNCHANGED extVars

\* 10. JIT secret: mint_ephemeral_token when the sponsor has a vault entry
\* for the service of the request
ProxyJit(r) ==
    /\ runs[r].pc = "jit"
    /\ \E has_vault \in BOOLEAN :
           IF has_vault
           THEN /\ jit_store' = mint_ephemeral_token(jit_store, r,
                                                     runs[r].agent_id, vault)
                /\ runs' = [runs EXCEPT ![r].pc = "resolve",
                                        ![r].eph_token = TRUE,
                                        ![r].jit = "live",
                                        ![r].done = @ \cup {"jit"}]
           ELSE /\ jit_store' = jit_store
                /\ runs' = [runs EXCEPT ![r].pc = "execute"]
    /\ UNCHANGED <<idem_cache, idem_lock, idem_lapsed, wallet, agent_status>>
    /\ UNCHANGED <<auditVars, hitlVars>>
    /\ UNCHANGED <<wallet_transactions, reserve, vault, cb_trips, trust_score,
                   adjusters>>
    /\ UNCHANGED extVars

\* resolve_token(eph_token); headers["Authorization"] when it resolves
ProxyResolve(r) ==
    /\ runs[r].pc = "resolve"
    /\ runs' = [runs EXCEPT ![r].pc = "execute",
                            ![r].auth = resolve_token(jit_store, r).real_secret]
    /\ UNCHANGED <<idem_cache, idem_lock, idem_lapsed, wallet, agent_status>>
    /\ UNCHANGED <<auditVars, hitlVars>>
    /\ UNCHANGED svcVars
    /\ UNCHANGED extVars

\* what client.request can bring back from the called service, which has
\* received the headers: a reply that does not depend on them, an exception
\* (502 with the exception's type name), or a reply that repeats the
\* Authorization header it was sent
Replies(auth) ==
    {[response_code |-> 200, response_body |-> "ok"],
     [response_code |-> 502, response_body |-> "error"]}
    \cup (IF auth # "" THEN {[response_code |-> 200, response_body |-> auth]}
          ELSE {})

\* 11. Execute: client.request; an exception becomes 502 or 504
ProxyExecute(r) ==
    /\ runs[r].pc = "execute"
    /\ \E reply \in Replies(runs[r].auth) :
           runs' = [runs EXCEPT ![r].pc = "revoke",
                                ![r].response_code = reply.response_code,
                                ![r].response_body = reply.response_body,
                                ![r].done = @ \cup {"outbound"}]
    /\ UNCHANGED <<idem_cache, idem_lock, idem_lapsed, wallet, agent_status>>
    /\ UNCHANGED <<auditVars, hitlVars>>
    /\ UNCHANGED svcVars
    /\ UNCHANGED extVars

\* 12. Revoke JIT: "if eph_token: await jit_broker.revoke_token(eph_token)"
ProxyRevoke(r) ==
    /\ runs[r].pc = "revoke"
    /\ jit_store' = IF runs[r].eph_token THEN revoke_token(jit_store, r)
                    ELSE jit_store
    /\ runs' = [runs EXCEPT ![r].pc = "charge",
                            ![r].eph_token = FALSE,
                            ![r].jit = IF runs[r].eph_token /\ @ = "live"
                                          /\ jit_store'[r] = Nil
                                       THEN "revoked" ELSE @,
                            ![r].done = IF runs[r].eph_token
                                        THEN @ \cup {"revoke"} ELSE @]
    /\ UNCHANGED <<idem_cache, idem_lock, idem_lapsed, wallet, agent_status>>
    /\ UNCHANGED <<auditVars, hitlVars>>
    /\ UNCHANGED <<wallet_transactions, reserve, vault, cb_trips, trust_score,
                   adjusters>>
    /\ UNCHANGED extVars

\* Redis expires jit:<agent_id>:<token> JIT_TOKEN_TTL_SECONDS after the mint
JitExpire(t) ==
    /\ jit_store[t] # Nil
    /\ jit_store' = [jit_store EXCEPT ![t] = Nil]
    /\ runs' = MarkTokens(runs, {t}, "expired")
    /\ UNCHANGED <<idem_cache, idem_lock, idem_lapsed, wallet, agent_status>>
    /\ UNCHANGED <<auditVars, hitlVars>>
    /\ UNCHANGED <<wallet_transactions, reserve, vault, cb_trips, trust_score,
                   adjusters>>
    /\ UNCHANGED extVars

\* api/agents.py: POST /agents/{id}/suspend, IdentityService.suspend_agent
SuspendAgent ==
    /\ agent_status' = "suspended"
    /\ UNCHANGED <<runs, idem_cache, idem_lock, idem_lapsed, wallet>>
    /\ UNCHANGED <<auditVars, hitlVars>>
    /\ UNCHANGED svcVars
    /\ UNCHANGED extVars

\* api/agents.py: POST /agents/{id}/activate, IdentityService.activate_agent
ActivateAgent ==
    /\ agent_status' = "active"
    /\ UNCHANGED <<runs, idem_cache, idem_lock, idem_lapsed, wallet>>
    /\ UNCHANGED <<auditVars, hitlVars>>
    /\ UNCHANGED svcVars
    /\ UNCHANGED extVars

\* 13. Charge wallet: WalletService.charge when cost > 0
ProxyCharge(r) ==
    /\ runs[r].pc = "charge"
    /\ IF runs[r].cost > 0
       THEN /\ wallet' = charge(wallet, runs[r].cost)
            /\ wallet_transactions' =
                   AddRow(wallet_transactions, 0 - runs[r].cost)
            /\ runs' = [runs EXCEPT ![r].pc = "behavior",
                                    ![r].done = @ \cup {"charge"}]
       ELSE /\ wallet' = wallet
            /\ wallet_transactions' = wallet_transactions
            /\ runs' = [runs EXCEPT ![r].pc = "behavior"]
    /\ UNCHANGED <<idem_cache, idem_lock, idem_lapsed, agent_status>>
    /\ UNCHANGED <<auditVars, hitlVars>>
    /\ UNCHANGED <<reserve, jit_store, vault, cb_trips, trust_score, adjusters>>
    /\ UNCHANGED extVars

\* a stage that only acts: record it and go on
ActStage(r, stage, next, effect) ==
    /\ runs[r].pc = stage
    /\ runs' = [runs EXCEPT ![r].pc = next, ![r].done = @ \cup effect]
    /\ UNCHANGED <<idem_cache, idem_lock, idem_lapsed, wallet, agent_status>>
    /\ UNCHANGED <<auditVars, hitlVars>>
    /\ UNCHANGED svcVars
    /\ UNCHANGED extVars

\* 14. Behavior: anomaly_detector.record_action
ProxyBehavior(r) == ActStage(r, "behavior", "trust", {"behavior"})

\* 15. Trust: reward_success when 200 <= response_code < 400
ProxyTrust(r) ==
    ActStage(r, "trust", "counter",
             IF 200 <= runs[r].response_code /\ runs[r].response_code < 400
             THEN {"reward"} ELSE {})

\* 16. increment_hourly_counter
ProxyCounter(r) == ActStage(r, "counter", "audit", {"counter"})

\* 17. Audit (buffered): AuditService.log(..., True, ...)
ProxyAudit(r) ==
    /\ runs[r].pc = "audit"
    /\ runs' = [runs EXCEPT ![r].pc = "respond", ![r].done = @ \cup {"audit"}]
    /\ PushAudit(runs[r].agent_id, TRUE, r)
    /\ UNCHANGED <<idem_cache, idem_lock, idem_lapsed, wallet, agent_status>>
    /\ UNCHANGED <<flushVars, hitlVars>>
    /\ UNCHANGED svcVars
    /\ UNCHANGED extVars

\* variant: the message of the response is the Authorization header sent
ProxyRespondWithAuth(r) ==
    /\ runs[r].pc = "respond"
    /\ LET resp == ProxyResponse(r, "executed", runs[r].auth, runs[r].response_body)
       IN  /\ runs' = [runs EXCEPT ![r].pc = "finally", ![r].resp = resp,
                                   ![r].done = IF runs[r].idem_key # ""
                                               THEN @ \cup {"store"} ELSE @]
           /\ idem_cache' = IF runs[r].idem_key # ""
                            THEN store_idempotency(idem_cache, runs[r].idem_key, resp)
                            ELSE idem_cache
    /\ UNCHANGED <<idem_lock, idem_lapsed, wallet, agent_status>>
    /\ UNCHANGED <<auditVars, hitlVars>>
    /\ UNCHANGED svcVars
    /\ UNCHANGED extVars

\* 19. Respond: the executed response, stored under the idempotency key
ProxyRespond(r) ==
    /\ runs[r].pc = "respond"
    /\ LET resp == ProxyResponse(r, "executed", "OK", runs[r].response_body)
       IN  /\ runs' = [runs EXCEPT ![r].pc = "finally", ![r].resp = resp,
                                   ![r].done = IF runs[r].idem_key # ""
                                               THEN @ \cup {"store"} ELSE @]
           /\ idem_cache' = IF runs[r].idem_key # ""
                            THEN store_idempotency(idem_cache, runs[r].idem_key, resp)
                            ELSE idem_cache
    /\ UNCHANGED <<idem_lock, idem_lapsed, wallet, agent_status>>
    /\ UNCHANGED <<auditVars, hitlVars>>
    /\ UNCHANGED svcVars
    /\ UNCHANGED extVars

\* an await of a stage raises (store or database error, or a call that
\* does not fit its callee) or the task is cancelled: control passes to the
\* finally block
ProxyRaise(r) ==
    /\ runs[r].pc \in {"ssrf", "identity", "firewall", "anomaly", "permission",
                       "wallet", "circuit", "trip_revoke", "trip_freeze",
                       "trip_event", "tripped", "policy", "hitl", "jit",
                       "resolve", "execute", "revoke", "charge", "behavior",
                       "trust", "counter", "audit", "respond"}
    /\ runs' = [runs EXCEPT ![r].pc = "finally", ![r].exc = "Exception"]
    /\ UNCHANGED <<idem_cache, idem_lock, idem_lapsed, wallet, agent_status>>
    /\ UNCHANGED <<auditVars, hitlVars>>
    /\ UNCHANGED svcVars
    /\ UNCHANGED extVars

\* finally: "if idem_key: await unlock_idempotency(idem_key)".  The call
\* binds one argument to two parameters: Python raises TypeError before the
\* body of unlock_idempotency runs, and the exception replaces the value
\* being returned.
ProxyFinally(r) ==
    /\ runs[r].pc = "finally"
    /\ IF runs[r].idem_key = ""
       THEN /\ runs' = [runs EXCEPT ![r] = Ended(@)]
            /\ idem_lock' = idem_lock
       ELSE IF Len(UnlockArguments) = Len(UnlockParameters)
       THEN /\ runs' = [runs EXCEPT ![r] = Ended(@)]
            /\ idem_lock' = unlock_idempotency(idem_lock, runs[r].idem_key,
                                               runs[r].lock_value)
       ELSE /\ runs' = [runs EXCEPT ![r] = Ended([@ EXCEPT !.exc = "TypeError"])]
            /\ idem_lock' = idem_lock
    /\ UNCHANGED <<idem_cache, idem_lapsed, wallet, agent_status>>
    /\ UNCHANGED <<auditVars, hitlVars>>
    /\ UNCHANGED svcVars
    /\ UNCHANGED extVars

\* Redis expires idem_lock:<key> 30 s after it was set
IdemLockExpire(k) ==
    /\ idem_lock[k] # Nil
    /\ idem_lock' = [idem_lock EXCEPT ![k] = Nil]
    /\ idem_lapsed' = idem_lapsed \cup {idem_lock[k][1]}
    /\ UNCHANGED <<runs, idem_cache, wallet, agent_status>>
    /\ UNCHANGED <<auditVars, hitlVars>>
    /\ UNCHANGED svcVars
    /\ UNCHANGED extVars

\* Redis expires idem:<key> IDEM_TTL seconds after it was stored
IdemCacheExpire(k) ==
    /\ idem_cache[k] # Nil
    /\ idem_cache' = [idem_cache EXCEPT ![k] = Nil]
    /\ UNCHANGED <<runs, idem_lock, idem_lapsed, wallet, agent_status>>
    /\ UNCHANGED <<auditVars, hitlVars>>
    /\ UNCHANGED svcVars
    /\ UNCHANGED extVars

\* api/wallets.py: a sponsor tops the wallet up
TopUp(amount) ==
    /\ wallet.balance + amount <= MaxBalance
    /\ wallet' = top_up(wallet, amount)
    /\ wallet_transactions' = AddRow(wallet_transactions, amount)
    /\ UNCHANGED <<runs, idem_cache, idem_lock, idem_lapsed, agent_status>>
    /\ UNCHANGED <<auditVars, hitlVars>>
    /\ UNCHANGED <<reserve, jit_store, vault, cb_trips, trust_score, adjusters>>
    /\ UNCHANGED extVars

InitProxy ==
    /\ runs = [r \in RunIds |-> RunNew]
    /\ idem_cache = [k \in IdemKeys |-> Nil]
    /\ idem_lock = [k \in IdemKeys |-> Nil]
    /\ idem_lapsed = {}
    /\ wallet = [balance |-> 1, daily_limit |-> 1, monthly_limit |-> 2,
                 spent_today |-> 0, spent_this_month |-> 0,
                 last_reset_daily |-> 0, last_reset_monthly |-> 0,
                 is_frozen |-> FALSE]
    /\ agent_status = "active"

NextProxy ==
    \/ \E r \in RunIds, k \in IdemKeys \cup {""}, a \in AgentIds, c \in Costs :
           ProxyBegin(r, k, a, c)
    \/ \E r \in RunIds : ProxyLock(r)
    \/ \E r \in RunIds : ProxySsrf(r)
    \/ \E r \in RunIds : ProxyIdentity(r)
    \/ \E r \in RunIds : ProxyFirewall(r)
    \/ \E r \in RunIds : ProxyAnomaly(r)
    \/ \E r \in RunIds : ProxyPermission(r)
    \/ \E r \in RunIds : ProxyWallet(r)
    \/ \E r \in RunIds : ProxyCircuit(r)
    \/ \E r \in RunIds : ProxyTripRevoke(r)
    \/ \E r \in RunIds : ProxyTripFreeze(r)
    \/ \E r \in RunIds : ProxyTripEvent(r)
    \/ \E r \in RunIds : ProxyTripped(r)
    \/ \E r \in RunIds : ProxyPolicy(r)
    \/ \E r \in RunIds : ProxyHitl(r)
    \/ \E r \in RunIds : ProxyJit(r)
    \/ \E r \in RunIds : ProxyResolve(r)
    \/ \E r \in RunIds : ProxyExecute(r)
    \/ \E r \in RunIds : ProxyRevoke(r)
    \/ \E r \in RunIds : ProxyCharge(r)
    \/ \E r \in RunIds : ProxyBehavior(r)
    \/ \E r \in RunIds : ProxyTrust(r)
    \/ \E r \in RunIds : ProxyCounter(r)
    \/ \E r \in RunIds : ProxyAudit(r)
    \/ \E r \in RunIds : ProxyRespond(r)
    \/ \E r \in RunIds : ProxyRaise(r)
    \/ \E r \in RunIds : ProxyFinally(r)
    \/ \E k \in IdemKeys : IdemLockExpire(k)
    \/ \E k \in IdemKeys : IdemCacheExpire(k)

InitHitl ==
    /\ hitl_requests = << >>
    /\ deciders = [d \in Deciders |-> DeciderIdle]
    /\ hitl_now = 0

NextHitl ==
    \/ HitlCreate
    \/ \E d \in Deciders, u \in Users, approved \in BOOLEAN, n \in Notes :
           \E id \in DOMAIN hitl_requests : DecideSelect(d, id, u, approved, n)
    \/ \E d \in Deciders : DecideCommit(d)
    \/ HitlTick

InitAudit ==
    /\ buffer = << >>
    /\ processing = << >>
    /\ audit_logs = << >>
    /\ flushLock = None
    /\ fl = [f \in Flushers |-> FlushIdle]
    /\ clock = 0

ReserveNone == [initial |-> Nil, amounts |-> {}, sum |-> 0, last |-> NoResult]

InitSvc ==
    /\ wallet_transactions = EmptyBag
    /\ reserve = ReserveNone
    /\ jit_store = [t \in RunIds |-> Nil]
    /\ vault = encrypt_secret("s1")
    /\ cb_trips = << >>
    /\ trust_score = DEFAULT_TRUST_SCORE
    /\ adjusters = [a \in Adjusters |-> AdjusterIdle]

InitExt ==
    /\ url_check = NoUrlCheck
    /\ rl = RlNew("/health")
    /\ perm = PermNew
    /\ forensic = ForensicNew
    /\ lifespan = LifespanNew
    /\ cb_check = NoCheck
    /\ hourly = HourlyNew
    /\ sdk = SdkNew

Init == InitAudit /\ InitProxy /\ InitHitl /\ InitSvc /\ InitExt

\* validate_url_async on each URL
InitUrl ==
    /\ InitAudit /\ InitProxy /\ InitHitl /\ InitSvc
    /\ url_check \in {[NoUrlCheck EXCEPT !.url = u] : u \in Urls}
    /\ rl = RlNew("/health")
    /\ perm = PermNew
    /\ forensic = ForensicNew
    /\ lifespan = LifespanNew
    /\ cb_check = NoCheck
    /\ hourly = HourlyNew
    /\ sdk = SdkNew

NextUrl == ValidateUrl

SpecUrl == InitUrl /\ [][NextUrl]_vars

\* the requests of one client to one path, minute after minute, with the
\* ephemeral store answering or failing from request to request
InitRate ==
    /\ InitAudit /\ InitProxy /\ InitHitl /\ InitSvc
    /\ url_check = NoUrlCheck
    /\ rl \in {RlNew(path) : path \in Paths}
    /\ perm = PermNew
    /\ forensic = ForensicNew
    /\ lifespan = LifespanNew
    /\ cb_check = NoCheck
    /\ hourly = HourlyNew
    /\ sdk = SdkNew

NextRate ==
    \/ \E store \in {"up", "down", "lost"} : RateLimiterRequest(store)
    \/ RateLimiterTick

SpecRate == InitRate /\ [][NextRate]_vars

\* permission writes of a sponsor next to the permission stage of a run
NextPerm ==
    \/ \E w \in PermWriters, s \in Services : AddPermissionBegin(w, s)
    \/ \E w \in PermWriters : AddPermissionCommit(w)
    \/ \E w \in PermWriters, i \in 1..MaxPerms : DeletePermissionSelect(w, i)
    \/ \E w \in PermWriters : DeletePermissionCommit(w)
    \/ \E w \in PermWriters : PermissionInvalidate(w)
    \/ \E w \in PermWriters : PermissionInvalidateFail(w)
    \/ \E w \in PermWriters : PermissionReturn(w)
    \/ \E p \in Lookers, s \in Services : LookupGet(p, s)
    \/ \E p \in Lookers : LookupSelect(p)
    \/ \E p \in Lookers : LookupSet(p)
    \/ \E p \in Lookers : LookupEnd(p)
    \/ \E s \in Services : PermCacheExpire(s)

SpecPerm == Init /\ [][NextPerm]_vars

\* the same with a store that answers every DEL
NextPermUp ==
    \/ \E w \in PermWriters, s \in Services : AddPermissionBegin(w, s)
    \/ \E w \in PermWriters : AddPermissionCommit(w)
    \/ \E w \in PermWriters, i \in 1..MaxPerms : DeletePermissionSelect(w, i)
    \/ \E w \in PermWriters : DeletePermissionCommit(w)
    \/ \E w \in PermWriters : PermissionInvalidate(w)
    \/ \E w \in PermWriters : PermissionReturn(w)
    \/ \E p \in Lookers, s \in Services : LookupGet(p, s)
    \/ \E p \in Lookers : LookupSelect(p)
    \/ \E p \in Lookers : LookupSet(p)
    \/ \E p \in Lookers : LookupEnd(p)
    \/ \E s \in Services : PermCacheExpire(s)

SpecPermUp == Init /\ [][NextPermUp]_vars

ExportSteps ==
    \/ \E from_id \in ExportFromIds, to_id \in ExportToIds,
          batch_size \in ExportBatchSizes :
           ExportSelect(from_id, to_id, batch_size)
    \/ ExportUpload
    \/ ExportCommit
    \/ ExportRaise

\* the audit tables under flushes, exports and the statements that reach
\* them with the triggers of the migration in place
NextImmut ==
    \/ Log("a1")
    \/ FlushRun
    \/ ExportSteps
    \/ \E i \in 1..MaxRows, column \in StatementColumns : SqlUpdate(i, column)
    \/ \E i \in 1..MaxRows : SqlDelete(i)
    \/ \E TG_OP \in {"UPDATE", "DELETE"}, k \in 1..MaxRows :
           LedgerStatement(TG_OP, k)

SpecImmut == Init /\ [][NextImmut]_vars

\* the audit table under flushes, one change made in storage, and exports
NextForensic ==
    \/ Log("a1")
    \/ FlushRun
    \/ ExportSteps
    \/ \E i \in 1..MaxRows,
          column \in {"agent_id", "timestamp", "previous_hash", "log_hash"} :
           Tamper(i, column)

SpecForensic == Init /\ [][NextForensic]_vars

\* one worker process from start_scheduler to the end of its shutdown flush
SpecShutdown == Init /\ [][NextShutdown]_vars

\* the two locks with their expiry: flush_buffer runs in several processes
\* over a short queue, and execute_proxy runs with one idempotency key that
\* leave the pipeline through an exception
NextLocks ==
    \/ clock < MaxQueued /\ Log("a1")
    \/ \E f \in Flushers :
          \/ FlushLlenBuffer(f)
          \/ FlushLlenProcessing(f)
          \/ FlushLock(f)
          \/ FlushMove(f)
          \/ FlushLrange(f)
          \/ FlushSelect(f)
          \/ FlushCommit(f)
          \/ FlushDelete(f)
          \/ FlushFail(f)
          \/ FlushUnlock(f)
    \/ FlushLockExpire
    \/ \E r \in RunIds, k \in IdemKeys : ProxyBegin(r, k, "a1", 0)
    \/ \E r \in RunIds : ProxyLock(r)
    \/ \E r \in RunIds : ProxyRaise(r)
    \/ \E r \in RunIds : ProxyFinally(r)
    \/ \E k \in IdemKeys : IdemLockExpire(k)

SpecLocks == Init /\ [][NextLocks]_vars

\* one check_and_trip call on each input
InitBreaker ==
    /\ InitAudit /\ InitProxy /\ InitHitl /\ InitSvc
    /\ url_check = NoUrlCheck
    /\ rl = RlNew("/health")
    /\ perm = PermNew
    /\ forensic = ForensicNew
    /\ lifespan = LifespanNew
    /\ cb_check \in CheckInputs
    /\ hourly = HourlyNew
    /\ sdk = SdkNew

NextBreaker == CheckAndTrip

SpecBreaker == InitBreaker /\ [][NextBreaker]_vars

\* concurrent execute_proxy runs of one agent on one service whose
\* permission allows 1..MaxPerHour requests per hour
InitHourly ==
    /\ InitAudit /\ InitProxy /\ InitHitl /\ InitSvc
    /\ url_check = NoUrlCheck
    /\ rl = RlNew("/health")
    /\ perm = PermNew
    /\ forensic = ForensicNew
    /\ lifespan = LifespanNew
    /\ cb_check = NoCheck
    /\ hourly \in {HourlyOf(m) : m \in 1..MaxPerHour}
    /\ sdk = SdkNew

NextHourly ==
    \/ \E r \in HourlyRuns : HourlyPolicy(r)
    \/ \E r \in HourlyRuns : HourlyExecute(r)
    \/ \E r \in HourlyRuns : HourlyIncrement(r)
    \/ \E r \in HourlyRuns : HourlyRaise(r)
    \/ HourPasses

SpecHourly == InitHourly /\ [][NextHourly]_vars

\* one AegisClient used by one thread, call after call
NextSdk ==
    \/ SdkExecute
    \/ \E outcome \in Attempts : SdkAttempt(outcome)
    \/ SdkTimePasses

SpecSdk == Init /\ [][NextSdk]_vars

NextAudit ==
    \/ \E a \in AgentIds : Log(a)
    \/ \E f \in Flushers : FlushLlenBuffer(f)
    \/ \E f \in Flushers : FlushLlenProcessing(f)
    \/ \E f \in Flushers : FlushLock(f)
    \/ \E f \in Flushers : FlushMove(f)
    \/ \E f \in Flushers : FlushLrange(f)
    \/ \E f \in Flushers : FlushSelect(f)
    \/ \E f \in Flushers : FlushCommit(f)
    \/ \E f \in Flushers : FlushDelete(f)
    \/ \E f \in Flushers : FlushFail(f)
    \/ \E f \in Flushers : FlushUnlock(f)

\* concurrent execute_proxy runs for one sponsor
SpecProxy == Init /\ [][NextProxy]_vars

\* concurrent execute_proxy runs without idempotency keys for the agent of
\* one sponsor, who tops up the agent's wallet meanwhile
NextTopUp ==
    \/ \E r \in RunIds, c \in Costs : ProxyBegin(r, "", "a1", c)
    \/ \E r \in RunIds : ProxySsrf(r)
    \/ \E r \in RunIds : ProxyIdentity(r)
    \/ \E r \in RunIds : ProxyFirewall(r)
    \/ \E r \in RunIds : ProxyAnomaly(r)
    \/ \E r \in RunIds : ProxyPermission(r)
    \/ \E r \in RunIds : ProxyWallet(r)
    \/ \E r \in RunIds : ProxyCircuit(r)
    \/ \E r \in RunIds : ProxyTripRevoke(r)
    \/ \E r \in RunIds : ProxyTripFreeze(r)
    \/ \E r \in RunIds : ProxyTripEvent(r)
    \/ \E r \in RunIds : ProxyTripped(r)
    \/ \E r \in RunIds : ProxyPolicy(r)
    \/ \E r \in RunIds : ProxyHitl(r)
    \/ \E r \in RunIds : ProxyJit(r)
    \/ \E r \in RunIds : ProxyResolve(r)
    \/ \E r \in RunIds : ProxyExecute(r)
    \/ \E r \in RunIds : ProxyRevoke(r)
    \/ \E r \in RunIds : ProxyCharge(r)
    \/ \E r \in RunIds : ProxyBehavior(r)
    \/ \E r \in RunIds : ProxyTrust(r)
    \/ \E r \in RunIds : ProxyCounter(r)
    \/ \E r \in RunIds : ProxyAudit(r)
    \/ \E r \in RunIds : ProxyRespond(r)
    \/ \E r \in RunIds : ProxyRaise(r)
    \/ \E r \in RunIds : ProxyFinally(r)
    \/ TopUp(1)

SpecTopUp == Init /\ [][NextTopUp]_vars

\* concurrent decide calls on the HITL requests of one sponsor
SpecHitl == Init /\ [][NextHitl]_vars

\* flush runs in several processes, serialized by the audit:flush lock
SpecAudit == Init /\ [][NextAudit]_vars

\* sequences of reserve_and_charge calls on one wallet: the small wallets
\* with amounts 1 and 2, and the example wallet with its amount
InitWallet ==
    /\ InitAudit /\ InitHitl
    /\ runs = [r \in RunIds |-> RunNew]
    /\ idem_cache = [k \in IdemKeys |-> Nil]
    /\ idem_lock = [k \in IdemKeys |-> Nil]
    /\ idem_lapsed = {}
    /\ agent_status = "active"
    /\ \/ wallet \in SmallWallets /\ reserve = [ReserveNone EXCEPT
                                                   !.initial = <<wallet>>,
                                                   !.amounts = {1, 2}]
       \/ wallet = ExampleWallet /\ reserve = [ReserveNone EXCEPT
                                                  !.initial = <<wallet>>,
                                                  !.amounts = {ExampleAmount}]
    /\ wallet_transactions = EmptyBag
    /\ jit_store = [t \in RunIds |-> Nil]
    /\ vault = encrypt_secret("s1")
    /\ cb_trips = << >>
    /\ trust_score = DEFAULT_TRUST_SCORE
    /\ adjusters = [a \in Adjusters |-> AdjusterIdle]
    /\ InitExt

NextWallet ==
    \E a \in AgentIds, amount \in {1, 2, ExampleAmount} : ReserveAndCharge(a, amount)

SpecWallet == InitWallet /\ [][NextWallet]_vars

\* concurrent adjust_score calls on one agent, from scores at and near the
\* ends of the range and from the initial score
InitTrust ==
    /\ InitAudit /\ InitProxy /\ InitHitl
    /\ wallet_transactions = EmptyBag
    /\ reserve = ReserveNone
    /\ jit_store = [t \in RunIds |-> Nil]
    /\ vault = encrypt_secret("s1")
    /\ cb_trips = << >>
    /\ trust_score \in {MIN_TRUST_SCORE, MIN_TRUST_SCORE + 5, DEFAULT_TRUST_SCORE,
                         MAX_TRUST_SCORE - 1, MAX_TRUST_SCORE}
    /\ adjusters = [a \in Adjusters |-> AdjusterIdle]
    /\ InitExt

NextTrust ==
    \/ \E a \in Adjusters, delta \in TrustDeltas : AdjustSelect(a, delta)
    \/ \E a \in Adjusters : AdjustCommit(a)

SpecTrust == InitTrust /\ [][NextTrust]_vars

\* concurrent execute_proxy runs of one agent, each reaching an outcome
NextOutcome ==
    \/ \E a \in Adjusters, outcome \in Outcomes : PipelineOutcome(a, outcome)
    \/ \E a \in Adjusters : AdjustCommit(a)

SpecOutcome == InitTrust /\ [][NextOutcome]_vars

\* concurrent execute_proxy runs without idempotency keys for the agent of
\* one sponsor, who suspends and activates it, with tokens that expire and
\* either value of the vault secret
InitAgent ==
    /\ InitAudit /\ InitProxy /\ InitHitl
    /\ wallet_transactions = EmptyBag
    /\ reserve = ReserveNone
    /\ jit_store = [t \in RunIds |-> Nil]
    /\ vault \in {encrypt_secret(x) : x \in Secrets}
    /\ cb_trips = << >>
    /\ trust_score = DEFAULT_TRUST_SCORE
    /\ adjusters = [a \in Adjusters |-> AdjusterIdle]
    /\ InitExt

NextAgent ==
    \/ \E r \in RunIds, c \in Costs : ProxyBegin(r, "", "a1", c)
    \/ \E r \in RunIds : ProxySsrf(r)
    \/ \E r \in RunIds : ProxyIdentity(r)
    \/ \E r \in RunIds : ProxyFirewall(r)
    \/ \E r \in RunIds : ProxyAnomaly(r)
    \/ \E r \in RunIds : ProxyPermission(r)
    \/ \E r \in RunIds : ProxyWallet(r)
    \/ \E r \in RunIds : ProxyCircuit(r)
    \/ \E r \in RunIds : ProxyTripRevoke(r)
    \/ \E r \in RunIds : ProxyTripFreeze(r)
    \/ \E r \in RunIds : ProxyTripEvent(r)
    \/ \E r \in RunIds : ProxyTripped(r)
    \/ \E r \in RunIds : ProxyPolicy(r)
    \/ \E r \in RunIds : ProxyHitl(r)
    \/ \E r \in RunIds : ProxyJit(r)
    \/ \E r \in RunIds : ProxyResolve(r)
    \/ \E r \in RunIds : ProxyExecute(r)
    \/ \E r \in RunIds : ProxyRevoke(r)
    \/ \E r \in RunIds : ProxyCharge(r)
    \/ \E r \in RunIds : ProxyBehavior(r)
    \/ \E r \in RunIds : ProxyTrust(r)
    \/ \E r \in RunIds : ProxyCounter(r)
    \/ \E r \in RunIds : ProxyAudit(r)
    \/ \E r \in RunIds : ProxyRespond(r)
    \/ \E r \in RunIds : ProxyRaise(r)
    \/ \E r \in RunIds : ProxyFinally(r)
    \/ \E t \in RunIds : JitExpire(t)
    \/ SuspendAgent
    \/ ActivateAgent

SpecAgent == InitAgent /\ [][NextAgent]_vars

\* the periodic flush with both stores reachable and no cancellation: every
\* flusher that can take a step eventually takes it (_periodic_flush calls
\* flush_buffer every AUDIT_FLUSH_INTERVAL_SECONDS)
FlushStep(f) ==
    \/ FlushLlenBuffer(f)
    \/ FlushLlenProcessing(f)
    \/ FlushLock(f)
    \/ FlushMove(f)
    \/ FlushLrange(f)
    \/ FlushSelect(f)
    \/ FlushCommit(f)
    \/ FlushDelete(f)
    \/ FlushUnlock(f)

NextAuditLive ==
    \/ \E a \in AgentIds : Log(a)
    \/ \E f \in Flushers : FlushStep(f)

SpecAuditLive ==
    Init /\ [][NextAuditLive]_vars /\ \A f \in Flushers : WF_vars(FlushStep(f))

\* flush runs of the entries of one agent that outlast the 15 s lifetime
\* of the lock
NextAuditTTL ==
    \/ Log("a1")
    \/ \E f \in Flushers : FlushStep(f)
    \/ FlushLockExpire

SpecAuditTTL == Init /\ [][NextAuditTTL]_vars

\* exports beside flush runs that may outlast the lifetime of their lock
NextExportTTL ==
    \/ clock < MaxLogged /\ Log("a1")
    \/ \E f \in Flushers : FlushStep(f)
    \/ FlushLockExpire
    \/ \E from_id \in ExportFromIds : ExportSelect(from_id, NoId, 2)
    \/ ExportUpload
    \/ ExportCommit
    \/ ExportRaise

SpecExportTTL == Init /\ [][NextExportTTL]_vars

(***************************************************************************)
(* Properties                                                              *)
(***************************************************************************)
Persisted(t) == \E i \in 1..Len(audit_logs) : audit_logs[i].timestamp = t

\* an entry has been written twice by a retried flush
RetriedRows ==
    \E i, j \in 1..Len(audit_logs) :
        i # j /\ audit_logs[i].timestamp = audit_logs[j].timestamp

SameKey(r, q) ==
    r # q /\ runs[r].idem_key # "" /\ runs[r].idem_key = runs[q].idem_key

LockReleasedAtEnd ==
    \A r \in RunIds :
        (runs[r].pc = "done" /\ runs[r].lock_value # 0)
        => idem_lock[runs[r].idem_key] # <<runs[r].lock_value>>

PreCommit == {"move", "lrange", "select", "commit"}

Timestamps(entries) == [i \in 1..Len(entries) |-> entries[i].timestamp]

Increasing(seq) == \A i, j \in 1..Len(seq) : i < j => seq[i] < seq[j]

PersistedAtMostOnce == ~RetriedRows

TerminalNeverChanges ==
    [][\A id \in DOMAIN hitl_requests :
           hitl_requests[id].status # "pending"
           => hitl_requests'[id] = hitl_requests[id]]_vars

\* C10: a run whose outcome is blocked or hitl_pending has performed none of
\* the action stages (JIT mint, outbound call, charge, behavior record, trust
\* reward, counter increment); the stages run in the listed order and the
\* first failing guard ends the run.
BlockedRunsTakeNoAction ==
    /\ [](\A r \in RunIds :
              runs[r].resp.status \in {"blocked", "hitl_pending"} =>
                  /\ runs[r].done \cap ActionStages = {}
                  /\ runs[r].pc \in {"finally", "done"})
    /\ [][\A r \in RunIds :
              runs'[r].pc # runs[r].pc =>
                  StageIndex(runs'[r].pc) > StageIndex(runs[r].pc)]_vars

C10Witness ==
    \E r, q \in RunIds :
        /\ runs[r].pc = "done" /\ runs[r].resp.status = "blocked"
        /\ ~runs[r].cached
        /\ runs[q].pc = "done" /\ runs[q].resp.status = "hitl_pending"
        /\ ~runs[q].cached

\* the audit entries that run r pushed, by position in the buffer
PushedBy(r) == {i \in 1..Len(buffer) : buffer[i].request_id = r}

DenialReasons == {"No wallet found", "Wallet is frozen", "Insufficient balance",
                  "Daily limit exceeded", "Monthly limit exceeded"}

TokenResolvesWhileLive ==
    \A t \in RunIds :
        /\ runs[t].jit = "live" =>
               resolve_token(jit_store, t) =
                   [real_secret |-> decrypt_secret(vault), agent_id |-> "a1"]
        /\ runs[t].jit # "live" => resolve_token(jit_store, t) = NoToken
        /\ runs[t].resp # NoResponse => runs[t].jit # "live"

C15Witness ==
    \E t, u \in RunIds :
        /\ runs[t].resp.status = "executed" /\ runs[t].jit = "revoked"
        /\ runs[u].jit = "expired"

ResponseMessages == {"blocked", "HITL", "OK"}

TrustScoreInRange ==
    /\ MIN_TRUST_SCORE <= trust_score
    /\ trust_score <= MAX_TRUST_SCORE

C20Witness ==
    \E a, b \in Adjusters :
        /\ a # b
        /\ adjusters[a].pc = "commit"
        /\ trust_score + adjusters[a].delta < MIN_TRUST_SCORE
        /\ adjusters[a].new_score = MIN_TRUST_SCORE
        /\ adjusters[b].pc = "commit"
        /\ adjusters[b].new_score # MIN_TRUST_SCORE

PolicyFailureBlocks ==
    /\ \A reply \in OpaReplies :
           reply.kind \in OpaFailures =>
               /\ ~evaluate(reply).allowed
               /\ ~evaluate(reply).requires_hitl
               /\ evaluate(reply).deny_reasons # ""
    /\ \A r \in RunIds :
           runs[r].opa = "failed" =>
               /\ runs[r].pc = "finally"
               /\ runs[r].resp = ProxyResponse(r, "blocked", "blocked", "")
               /\ runs[r].done \cap {"hitl", "jit", "outbound", "charge"} = {}
               /\ PushedBy(r) # {}

C22Witness ==
    \E r \in RunIds : runs[r].opa = "failed" /\ runs[r].pc = "finally"

\* C23: validate_url_async reports a URL safe only if the scheme is http or
\* https, there is a hostname, its lower-cased form is not a blocked name, a
\* literal address lies in no blocked network, and a name resolves and to no
\* address in a blocked network.
SafeUrlResolvesOutsideBlocked ==
    (url_check.called /\ url_check.result.is_safe) =>
        LET url == url_check.url
        IN  /\ url.scheme \in {"http", "https"}
            /\ url.hostname # ""
            /\ lower(url.hostname) \notin BLOCKED_HOSTNAMES
            /\ url.hostname \in IpLiterals => url.hostname \notin BLOCKED_NETWORKS
            /\ url.hostname \notin IpLiterals =>
                   /\ ~url.resolves.gaierror
                   /\ url.resolves.addrs \cap BLOCKED_NETWORKS = {}

AtMostOneActivePermission ==
    /\ \A s \in Services : Cardinality(ActiveRows(perm.rows, s)) <= 1
    /\ \A p \in Lookers : perm.lookers[p].found <= 1

\* C27: a persisted audit entry is never deleted and none of its columns
\* other than tsa_token and exported_at ever changes; a row of
\* immutable_exports is never deleted or changed
PersistedEntriesImmutable ==
    [][/\ Len(audit_logs') >= Len(audit_logs)
       /\ \A i \in 1..Len(audit_logs) :
              /\ audit_logs'[i] = audit_logs[i]
              /\ forensic'.model_used[i] = forensic.model_used[i]
       /\ Len(forensic'.immutable_exports) >= Len(forensic.immutable_exports)
       /\ \A k \in 1..Len(forensic.immutable_exports) :
              forensic'.immutable_exports[k] = forensic.immutable_exports[k]
      ]_vars

\* the hashed core columns that the model carries
HashedCoreColumns == {"agent_id", "timestamp"}

BrokenLinkSelected(from_id, to_id, batch_size) ==
    LET ids == SelectBatch(audit_logs, forensic.exported_at,
                           from_id, to_id, batch_size)
    IN  \E k \in 2..Len(ids) :
            audit_logs[ids[k]].previous_hash # audit_logs[ids[k - 1]].log_hash

\* C29: an export_batch call whose selected rows contain a broken chain link
\* returns failure at once: nothing is uploaded, no exported_at is set and no
\* row of immutable_exports is inserted
BrokenBatchExportsNothing ==
    [][(/\ forensic'.exports = forensic.exports + 1
        /\ BrokenLinkSelected(forensic'.export.from_id, forensic'.export.to_id,
                              forensic'.export.batch_size))
       => /\ forensic'.export.pc = "idle"
          /\ ~forensic'.export.result.success
          /\ forensic'.export.result.error # ""
          /\ forensic'.uploads = forensic.uploads
          /\ forensic'.exported_at = forensic.exported_at
          /\ forensic'.immutable_exports = forensic.immutable_exports
          /\ audit_logs' = audit_logs]_vars

\* an export over three rows, the second with a changed hash, has returned
\* the failure and left storage, marks and ledger empty
C29Witness ==
    /\ forensic.tampered.id = 2
    /\ forensic.tampered.column \in {"previous_hash", "log_hash"}
    /\ forensic.export.pc = "idle"
    /\ forensic.export.result.record_count = 3
    /\ ~forensic.export.result.success
    /\ forensic.uploads = {}
    /\ forensic.immutable_exports = << >>
    /\ \A i \in 1..MaxRows : forensic.exported_at[i] = 0

\* C30: at shutdown, after stop_scheduler, when the one further flush_buffer
\* run has returned and did not come through its except branch, the buffer
\* and the processing list are empty and every entry logged before the
\* shutdown is a row of audit_logs.
ShutdownFlushDrains ==
    (lifespan.run["final"].pc = "done" /\ ~lifespan.run["final"].error)
        => /\ lifespan.buffer = 0
           /\ lifespan.processing = 0
           /\ lifespan.rows - lifespan.duplicates = lifespan.logged

\* C31: entries are persisted in the order they were pushed: when entry A
\* was pushed before entry B (A's timestamp is the smaller one), every row
\* of A has a smaller id than every row of B, over any sequence of
\* flush_buffer runs including failed and retried ones.
PersistedInPushOrder ==
    \A i, j \in 1..Len(audit_logs) :
        audit_logs[i].timestamp < audit_logs[j].timestamp => i < j

\* a flush_buffer run between acquiring lock:audit:flush and the end of
\* its DEL of the processing list
InsideFlushLock(f) == fl[f].pc \in {"move", "lrange", "select", "commit", "delete"}

\* C32: over any interleaving of flush_buffer runs in several processes, at
\* most one run at a time is between acquiring the audit:flush lock and
\* deleting the processing list, and no two persisted entries have the same
\* previous_hash.
OneRunInsideFlushLock ==
    /\ \A f, g \in Flushers :
           (InsideFlushLock(f) /\ InsideFlushLock(g)) => f = g
    /\ \A i, j \in 1..Len(audit_logs) :
           audit_logs[i].previous_hash = audit_logs[j].previous_hash => i = j

\* C33: releasing a lock (lock:audit:flush, or the idempotency lock of a
\* key) deletes the key only if it still holds the value the releasing
\* holder set, and changes nothing else about it: a holder whose lock
\* expired never deletes the lock of the holder that acquired the key after
\* it.
ReleaseSparesSuccessor ==
    [][/\ \A f \in Flushers :
              (fl[f].pc = "unlock" /\ fl'[f].pc # "unlock")
              => flushLock' = (IF flushLock = f THEN None ELSE flushLock)
       /\ \A r \in RunIds :
              (runs[r].pc = "finally" /\ runs'[r].pc # "finally")
              => \A k \in IdemKeys :
                     idem_lock[k] # <<r>> => idem_lock'[k] = idem_lock[k]
      ]_vars

\* a flush_buffer run at its release while the other run holds the key it
\* acquired after the expiry, and an ended execute_proxy run whose lock
\* expired while the key holds the value of the run after it
C33Witness ==
    /\ \E f, g \in Flushers :
           f # g /\ fl[f].pc = "unlock" /\ flushLock = g /\ InsideFlushLock(g)
    /\ \E r, q \in RunIds, k \in IdemKeys :
           /\ r # q
           /\ runs[r].pc = "done"
           /\ r \in idem_lapsed
           /\ idem_lock[k] = <<q>>

\* C34: a decide call that finds the request pending after its expires_at
\* never sets approved or rejected: its commit sets the status to expired
\* and writes no decider and no decision time; a decide call that finds the
\* request pending at or before expires_at sets approved or rejected, and
\* its commit records the decider and the decision time.
LateDecideExpires ==
    [][\A d \in Deciders :
          /\ (deciders[d].pc = "idle" /\ deciders'[d].pc = "commit")
             => LET req == hitl_requests[deciders'[d].request_id]
                IN  /\ req.status = "pending"
                    /\ IF NowMinutes > req.expires_at
                       THEN /\ deciders'[d].status = "expired"
                            /\ deciders'[d].user_id = ""
                       ELSE /\ deciders'[d].status \in {"approved", "rejected"}
                            /\ deciders'[d].user_id \in Users
          /\ (deciders[d].pc = "commit" /\ deciders'[d].pc = "idle")
             => LET id == deciders[d].request_id
                    old == hitl_requests[id]
                    new == hitl_requests'[id]
                IN  IF deciders[d].status = "expired"
                    THEN /\ new.status = "expired"
                         /\ new.decided_by = old.decided_by
                         /\ new.decided_at = old.decided_at
                    ELSE /\ new.status = deciders[d].status
                         /\ new.decided_by = deciders[d].user_id
                         /\ new.decided_at # -1
      ]_vars

\* a request that a late decide call has expired, with no decider
C34Witness ==
    \E id \in DOMAIN hitl_requests :
        /\ hitl_requests[id].status = "expired"
        /\ hitl_requests[id].decided_by = ""
        /\ hitl_requests[id].decided_at = -1
        /\ NowMinutes > hitl_requests[id].expires_at

\* the state that _trigger_panic changes
panicVars == <<agent_status, jit_store, wallet, cb_trips>>

\* C35: check_and_trip trips exactly when the previous-window sum is > 0
\* and the increase of the current-window sum, pending amount included,
\* over it is at least threshold_pct percent, or a stored baseline exists
\* and the current-window sum, pending amount included, is > 4 times the
\* baseline; otherwise it returns false and changes no state.
TripsExactlyOnSpikeOrBaseline ==
    /\ [](cb_check.done =>
             (cb_check.tripped <=>
                 LET current_total == cb_check.current + cb_check.amount
                 IN  \/ /\ cb_check.previous > 0
                        /\ (current_total - cb_check.previous) * 100
                               >= CIRCUIT_BREAKER_THRESHOLD_PCT * cb_check.previous
                     \/ /\ cb_check.baseline # Nil
                        /\ current_total > 4 * cb_check.baseline[1]))
    /\ [][(cb_check'.done /\ ~cb_check'.tripped) => UNCHANGED panicVars]_vars

\* C35 as the code has it: the baseline rule applies to a stored baseline
\* that is greater than 0.
TripsExactlyOnSpikeOrPositiveBaseline ==
    /\ [](cb_check.done =>
             (cb_check.tripped <=>
                 LET current_total == cb_check.current + cb_check.amount
                 IN  \/ /\ cb_check.previous > 0
                        /\ (current_total - cb_check.previous) * 100
                               >= CIRCUIT_BREAKER_THRESHOLD_PCT * cb_check.previous
                     \/ /\ cb_check.baseline # Nil
                        /\ cb_check.baseline[1] > 0
                        /\ current_total > 4 * cb_check.baseline[1]))
    /\ [][(cb_check'.done /\ ~cb_check'.tripped) => UNCHANGED panicVars]_vars

\* a call that tripped on the baseline rule alone, and left the agent in
\* panic with a frozen wallet
C35Witness ==
    /\ cb_check.done
    /\ cb_check.tripped
    /\ cb_check.previous = 0
    /\ cb_check.baseline # Nil
    /\ agent_status = "panic"
    /\ wallet.is_frozen

\* the ids of a batch
BatchIds(ids) == {ids[k] : k \in 1..Len(ids)}

DeleteReturned(perm_id) ==
    /\ perm_id \in 1..perm.next_id
    /\ \A r \in perm.rows : r.id # perm_id
    /\ \A w \in PermWriters :
           ~(/\ perm.writers[w].op = "delete"
             /\ perm.writers[w].perm_id = perm_id
             /\ perm.writers[w].pc \in {"invalidate", "return"})

SdkBreakerOneProbe ==
    /\ [](sdk.state = "closed" => sdk.failure_count < sdk.failure_threshold)
    /\ [](sdk.probes <= 1)
    /\ [][(/\ sdk.pc = "idle"
            /\ sdk.state = "open"
            /\ sdk.monotonic - sdk.opened_at < sdk.reset_timeout_seconds)
           => (sdk'.pc = "idle" /\ sdk'.state = "open")]_vars
    /\ [][(sdk.pc = "post" /\ sdk'.last = "returned")
           => (sdk'.state = "closed" /\ sdk'.failure_count = 0)]_vars
    /\ [][(/\ sdk.state = "half_open"
            /\ sdk'.failure_count > sdk.failure_count)
           => sdk'.state = "open"]_vars

====
